---- MODULE Spec2Model ----
(***************************************************************************)
(* A model of the scope session store (core/state.py), the commands that   *)
(* mutate it (spawn, abort, exit, the TUI new-session action) and the      *)
(* doer->checker loop engine (core/loop.py).                               *)
(*                                                                         *)
(* In the store, session ids are modelled as sequences of naturals: "0"    *)
(* is <<0>>, "0.1" is <<0, 1>>, and the empty parent "" is <<>>.  In the   *)
(* loop engine, where ids are built by string formatting, they are strings.*)
(***************************************************************************)
EXTENDS Integers, Sequences, FiniteSets, TLC

\* ------------------------------------------------------------------ bounds
MaxProcs == 2
MaxSpawns == 3
MaxDepth == 2
MaxIter == 2
MaxIndex == 11
MaxEdits == 1
MaxLines == 2
MaxNames == 4
MaxCriteria == 2
MaxText == 4

Procs == 1..MaxProcs

\* ------------------------------------------------------------ store state
VARIABLES
    nextIdFile,   \* content of .scope/next_id, NoFile when it does not exist
    sessions,     \* id -> [state, parent]: the directories under .scope/sessions
    panes,        \* ids whose mux window / pane has been created
    pc,           \* per process: position inside the command it runs
    mode,         \* per process: "spawn" (scope spawn) or "tui" (action_new_session)
    parentArg,    \* per process: SCOPE_SESSION_ID of the caller ("" is <<>>)
    current,      \* per process: the counter value next_id read
    sid,          \* per process: the id next_id returned
    alias,        \* per process: the --id option of the spawn, "" when absent
    nCalls,       \* how many times next_id has been called
    given         \* every id a session record has ever been saved under

storeVars == <<nextIdFile, sessions, panes, pc, mode, parentArg, current, sid,
               alias, nCalls, given>>



\* ------------------------------------------------------------- loop state
VARIABLES
    max_iterations,  \* run_loop argument
    checkerKind,     \* "command" (shell command checker) or "agent" (agent: prompt)
    lpc,             \* position of the loop engine inside run_loop
    iteration,       \* the for-loop variable of run_loop
    history,         \* run_loop's local history list
    loopState,       \* loop_state.json of the loop session as last persisted
    current_doer_id, \* run_loop's current_doer_id
    lsess,           \* loop sessions on disk: key -> [state, exit_reason, result]
    exiting,         \* sessions whose exit command wrote state, not yet exit_reason
    armed,           \* the session wait_for_sessions watches, NoSession when none
    event,           \* a change of the watched state file is pending delivery
    verdict,         \* the verdict run_checker returned for this iteration
    checkerRuns,     \* how many times run_checker has been called
    retrySpawns,     \* how many retry doers run_loop has spawned
    ret,             \* the LoopResult returned, with the return statement taken
    doer_result      \* run_loop's doer_result: what read_result gave for the doer

loopVars == <<max_iterations, checkerKind, lpc, iteration, history, loopState,
              current_doer_id, lsess, exiting, armed, event, verdict,
              checkerRuns, retrySpawns, ret, doer_result>>

\* ------------------------------------------- one checker evaluation state
VARIABLES
    checker,          \* run_loop's checker argument: "cmd" or "agent:"
    rubric_path,      \* run_loop's rubric_path argument, "" when not set
    rubricFile,       \* the content of the rubric file
    edits,            \* how many times the rubric file has been edited
    cpc,              \* position inside the checker phase of one iteration
    iter_rubric_hash, \* run_loop's iter_rubric_hash
    rubric,           \* what load_rubric returned inside run_checker
    gate_results,     \* run_rubric_checker's gate_results
    csess,            \* the checker session on disk: [state, result]
    seen,             \* the locals after the wait: session state, response, agent verdict
    out,              \* what run_checker returned
    entry             \* the history entry run_loop built from it

checkVars == <<checker, rubric_path, rubricFile, edits, cpc, iter_rubric_hash,
               rubric, gate_results, csess, seen, out, entry>>

\* ------------------------------------------------- session names as text
VARIABLES
    names,        \* name of each directory under .scope/sessions -> [loop]
    counterFile   \* content of .scope/next_id as next_id's root branch sees it

idVars == <<names, counterFile>>

\* ------------------------------------------------------- workflow state
VARIABLES
    phases,        \* Workflow.phases: the registered Phase objects, in order
    phase_names,   \* Workflow._phase_names
    call,          \* the arguments of the last call of Workflow.phase
    raised,        \* the last call of Workflow.phase raised ValueError
    wpc,           \* position inside Workflow.run, "build" before it is called
    wi,            \* the index of the phase Workflow.run is at (from 1)
    cmds,          \* the phases whose `scope spawn` subprocess has been run
    disk,          \* what the loop of the last spawned phase did and left on disk
    run_results        \* Workflow.run's results dict: phase name -> PhaseResult

wfVars == <<phases, phase_names, call, raised, wpc, wi, cmds, disk, run_results>>

\* ---------------------------------------- one call of a pure function
VARIABLES
    fpc,     \* "off", "call" before the function is applied, "done" after
    arg,     \* the arguments of the call
    value    \* what the call returned

fnVars == <<fpc, arg, value>>

\* ------------------------------ one session directory, written and read
VARIABLES
    sdir,      \* .scope/sessions/{id}: [exists, files: name -> content]
    wpos,      \* save_session: the file it is at (0 before mkdir)
    wopen,     \* save_session: the file at wpos is open (created, still empty)
    rpc,       \* the reader: "start", "read", "build", "returned", "raised"
    rpos,      \* load_session: the file it reads next
    loaded,    \* load_session: the file contents read so far
    got        \* what the reader returned

ioVars == <<sdir, wpos, wopen, rpc, rpos, loaded, got>>

\* ------------------------- one spawn command, from create_window onwards
VARIABLES
    dpc,               \* position inside spawn's try block, "off" when not run
    skip_ready_check,  \* spawn's skip_ready_check (SCOPE_SKIP_READY_CHECK)
    taskFile,          \* the task file: "pending", "updated" or "missing"
    drec,              \* state of the session record spawn allocated, or "missing"
    attempt,           \* how many rounds of the resend loop have completed
    submits,           \* submit keystrokes the resend loop has delivered
    observed           \* what the last _wait_for_task_update saw in the task file

deliverVars == <<dpc, skip_ready_check, taskFile, drec, attempt, submits, observed>>

\* what the actions of one part of the program leave alone
notStore == <<loopVars, checkVars, idVars, wfVars, fnVars, ioVars, deliverVars>>
notLoop == <<storeVars, checkVars, idVars, wfVars, fnVars, ioVars, deliverVars>>
notCheck == <<storeVars, loopVars, idVars, wfVars, fnVars, ioVars, deliverVars>>
notId == <<storeVars, loopVars, checkVars, wfVars, fnVars, ioVars, deliverVars>>
notWf == <<storeVars, loopVars, checkVars, idVars, fnVars, ioVars, deliverVars>>
notFn == <<storeVars, loopVars, checkVars, idVars, wfVars, ioVars, deliverVars>>
notIo == <<storeVars, loopVars, checkVars, idVars, wfVars, fnVars, deliverVars>>
notDeliver == <<storeVars, loopVars, checkVars, idVars, wfVars, fnVars, ioVars>>

vars == <<storeVars, loopVars, checkVars, idVars, wfVars, fnVars, ioVars,
          deliverVars>>

NoFile == -1
Root == <<>>

TERMINAL_STATES == {"done", "aborted", "failed", "exited"}

Max(S) == CHOOSE x \in S : \A y \in S : y <= x

IsPrefix(a, b) == Len(a) <= Len(b) /\ SubSeq(b, 1, Len(a)) = a

RemoveWithDescendants(f, k) == [x \in {y \in DOMAIN f : ~IsPrefix(k, y)} |-> f[x]]

Remove(f, k) == [x \in DOMAIN f \ {k} |-> f[x]]

\* The directories whose name is parent + "." + <int>: the direct children.
ChildrenOf(parent, S) ==
    {id \in DOMAIN S : Len(id) = Len(parent) + 1 /\ SubSeq(id, 1, Len(parent)) = parent}

\* next_id for a child: max existing child index + 1, -1 when there is none.
NextChildId(parent, S) ==
    Append(parent, Max({id[Len(id)] : id \in ChildrenOf(parent, S)} \cup {-1}) + 1)

\* save_session: mkdir(exist_ok) and rewrite every field file.
SaveSession(S, id, parent, a) ==
    (id :> [state |-> "running", parent |-> parent, alias |-> a]) @@ S

\* The aliases a spawn can ask for with --id, and "" for none.
Aliases == {"a"}
NoAlias == ""

\* load_session_by_alias(a) is not None: some session holds the alias.
AliasTaken(S, a) == \E id \in DOMAIN S : S[id].alias = a

\* update_state: an unconditional rewrite of the state file.
UpdateState(S, id, st) == [S EXCEPT ![id].state = st]

StoreInit ==
    /\ nextIdFile = NoFile
    /\ sessions = <<>>
    /\ panes = {}
    /\ pc = [p \in Procs |-> "idle"]
    /\ mode = [p \in Procs |-> "spawn"]
    /\ parentArg = [p \in Procs |-> Root]
    /\ current = [p \in Procs |-> 0]
    /\ sid = [p \in Procs |-> Root]
    /\ alias = [p \in Procs |-> NoAlias]
    /\ nCalls = 0
    /\ given = {}

\* The command of process p ends: its locals are gone with the process.
Finished(p) ==
    /\ pc' = [pc EXCEPT ![p] = "idle"]
    /\ mode' = [mode EXCEPT ![p] = "spawn"]
    /\ parentArg' = [parentArg EXCEPT ![p] = Root]
    /\ current' = [current EXCEPT ![p] = 0]
    /\ sid' = [sid EXCEPT ![p] = Root]
    /\ alias' = [alias EXCEPT ![p] = NoAlias]

\* scope spawn starts with its --id option (an alias, or none).
SpawnBegin(p) ==
    /\ pc[p] = "idle"
    /\ nCalls < MaxSpawns
    /\ \E a \in Aliases \cup {NoAlias} : alias' = [alias EXCEPT ![p] = a]
    /\ mode' = [mode EXCEPT ![p] = "spawn"]
    /\ pc' = [pc EXCEPT ![p] = "alias_check"]
    /\ UNCHANGED <<nextIdFile, sessions, panes, parentArg, current, sid, nCalls, given>>
    /\ UNCHANGED notStore

\* spawn: no alias was asked for or load_session_by_alias finds none; the
\* parent is then read from SCOPE_SESSION_ID.
AliasCheckPasses(p) ==
    /\ pc[p] = "alias_check"
    /\ ~(alias[p] # NoAlias /\ AliasTaken(sessions, alias[p]))
    /\ \E par \in {Root} \cup {id \in DOMAIN sessions : Len(id) < MaxDepth} :
        /\ parentArg' = [parentArg EXCEPT ![p] = par]
        /\ pc' = [pc EXCEPT ![p] = IF par = Root THEN "nid_read" ELSE "nid_child"]
    /\ UNCHANGED <<nextIdFile, sessions, panes, mode, current, sid, nCalls, given, alias>>
    /\ UNCHANGED notStore

\* spawn: the alias is already used by a session; error message, exit 1.
AliasCheckFails(p) ==
    /\ pc[p] = "alias_check"
    /\ alias[p] # NoAlias
    /\ AliasTaken(sessions, alias[p])
    /\ Finished(p)
    /\ UNCHANGED <<nextIdFile, sessions, panes, nCalls, given>>
    /\ UNCHANGED notStore

\* The TUI's new-session action starts: always a root session.
TuiBegin(p) ==
    /\ pc[p] = "idle"
    /\ nCalls < MaxSpawns
    /\ parentArg' = [parentArg EXCEPT ![p] = Root]
    /\ mode' = [mode EXCEPT ![p] = "tui"]
    /\ pc' = [pc EXCEPT ![p] = "nid_read"]
    /\ UNCHANGED <<nextIdFile, sessions, panes, current, sid, nCalls, given, alias>>
    /\ UNCHANGED notStore

\* next_id, root branch, first half: read the counter file (0 when absent).
NextIdRead(p) ==
    /\ pc[p] = "nid_read"
    /\ current' = [current EXCEPT ![p] = IF nextIdFile = NoFile THEN 0 ELSE nextIdFile]
    /\ pc' = [pc EXCEPT ![p] = "nid_write"]
    /\ UNCHANGED <<nextIdFile, sessions, panes, mode, parentArg, sid, nCalls, given, alias>>
    /\ UNCHANGED notStore

\* next_id, root branch, second half: write current + 1 and return current.
NextIdWrite(p) ==
    /\ pc[p] = "nid_write"
    /\ nextIdFile' = current[p] + 1
    /\ sid' = [sid EXCEPT ![p] = <<current[p]>>]
    /\ nCalls' = nCalls + 1
    /\ pc' = [pc EXCEPT ![p] = IF mode[p] = "tui" THEN "tui_save" ELSE "create_window"]
    /\ UNCHANGED <<sessions, panes, mode, parentArg, current, given, alias>>
    /\ UNCHANGED notStore

\* next_id, child branch: one scan of the sessions directory.
NextIdChild(p) ==
    /\ pc[p] = "nid_child"
    /\ sid' = [sid EXCEPT ![p] = NextChildId(parentArg[p], sessions)]
    /\ nCalls' = nCalls + 1
    /\ pc' = [pc EXCEPT ![p] = "create_window"]
    /\ UNCHANGED <<nextIdFile, sessions, panes, mode, parentArg, current, given, alias>>
    /\ UNCHANGED notStore

\* spawn: create_window succeeds, before the record is saved.
CreateWindow(p) ==
    /\ pc[p] = "create_window"
    /\ panes' = panes \cup {sid[p]}
    /\ pc' = [pc EXCEPT ![p] = "save"]
    /\ UNCHANGED <<nextIdFile, sessions, mode, parentArg, current, sid, nCalls, given, alias>>
    /\ UNCHANGED notStore

\* spawn: create_window raises TmuxError, the command exits 1.
CreateWindowFails(p) ==
    /\ pc[p] = "create_window"
    /\ Finished(p)
    /\ UNCHANGED <<nextIdFile, sessions, panes, nCalls, given>>
    /\ UNCHANGED notStore

\* spawn: save_session once the window exists; the command then completes.
SpawnSave(p) ==
    /\ pc[p] = "save"
    /\ sessions' = SaveSession(sessions, sid[p], parentArg[p], alias[p])
    /\ given' = given \cup {sid[p]}
    /\ Finished(p)
    /\ UNCHANGED <<nextIdFile, panes, nCalls>>
    /\ UNCHANGED notStore

\* TUI: save_session right after next_id.
TuiSave(p) ==
    /\ pc[p] = "tui_save"
    /\ sessions' = SaveSession(sessions, sid[p], Root, NoAlias)
    /\ given' = given \cup {sid[p]}
    /\ pc' = [pc EXCEPT ![p] = "tui_split"]
    /\ UNCHANGED <<nextIdFile, panes, mode, parentArg, current, sid, nCalls, alias>>
    /\ UNCHANGED notStore

\* TUI: split_window creates the pane after the record was saved.
TuiSplit(p) ==
    /\ pc[p] = "tui_split"
    /\ panes' = panes \cup {sid[p]}
    /\ Finished(p)
    /\ UNCHANGED <<nextIdFile, sessions, nCalls, given>>
    /\ UNCHANGED notStore

\* scope abort <id>: kill the mux session when has_session finds it (best
\* effort) and delete the directory.
Abort ==
    /\ \E id \in DOMAIN sessions :
        /\ sessions' = Remove(sessions, id)
        /\ panes' \in {panes, panes \ {id}}
    /\ UNCHANGED <<nextIdFile, pc, mode, parentArg, current, sid, nCalls, given, alias>>
    /\ UNCHANGED notStore

\* scope exit <reason>, run inside a session: update_state(id, "exited").
ExitCmd ==
    /\ \E id \in DOMAIN sessions :
        sessions' = UpdateState(sessions, id, "exited")
    /\ UNCHANGED <<nextIdFile, panes, pc, mode, parentArg, current, sid, nCalls, given, alias>>
    /\ UNCHANGED notStore

\* The hook handler (agent stop / pane-died events): a running session that
\* has a pane gets a terminal state, once.
HookTerminal ==
    /\ \E id \in DOMAIN sessions, st \in {"done", "aborted", "failed"} :
        /\ id \in panes
        /\ sessions[id].state = "running"
        /\ sessions' = UpdateState(sessions, id, st)
    /\ UNCHANGED <<nextIdFile, panes, pc, mode, parentArg, current, sid, nCalls, given, alias>>
    /\ UNCHANGED notStore

\* ------------------------------------------------------------ loop engine
\* run_loop's session_id argument: the id of the loop session.
session_id == "0"

\* iter_session_id without the role suffix.
IterSessionIdNoRole(loop_id, it, role) == loop_id \o "-" \o ToString(it)

\* iter_session_id: f"{loop_id}-{iteration}-{role}".
iter_session_id(loop_id, it, role) ==
    loop_id \o "-" \o ToString(it) \o "-" \o role

\* next_id, child branch: f"{parent}.{n}", the id of a plain child.
PlainChildId(parent, n) == parent \o "." \o ToString(n)

\* The doer of iteration k: the loop session itself, then the retry doers.
DoerKey(k) == IF k = 0 THEN session_id ELSE iter_session_id(session_id, k, "do")

\* The checker session of iteration k.
CheckKey(k) == iter_session_id(session_id, k, "check")

\* No session id (the empty string).
NoSession == ""
Verdicts == {"accept", "retry", "terminate"}
Roles == {"do", "check"}
LoopIds == {"0", "1", "2.1", "10"}
Reasons == {"r"}

NoResult ==
    [verdict |-> "none", iterations |-> 0, history |-> <<>>, exit_reason |-> "",
     result_text |-> "", via |-> "none"]

NewSession == [state |-> "running", exit_reason |-> "none", result |-> ""]

\* The output the agent of session s leaves in its result file.
OutputOf(s) == "out:" \o s

\* read_result(scope_dir, id): the stripped result file, "" when there is none.
read_result_file(S, s) == IF s \in DOMAIN S THEN S[s].result ELSE ""

\* wait_for_sessions, first pass: a missing or terminal session is not pending.
NotPending(S, s) == s \notin DOMAIN S \/ S[s].state \in TERMINAL_STATES

\* wait_for_sessions, on a change of the state file: load_session and test.
SeenTerminal(S, s) == s \in DOMAIN S /\ S[s].state \in TERMINAL_STATES

\* DoerOutcome with the failed state left out of the test.
DoerOutcomeAbortedOnly(S, s) ==
    IF s \in DOMAIN S /\ S[s].state \in {"aborted"} THEN "terminate"
    ELSE IF s \in DOMAIN S /\ S[s].state = "exited" THEN "exit"
    ELSE "check"

\* run_loop, after load_session(current_doer_id): what the doer's state decides.
DoerOutcome(S, s) ==
    IF s \in DOMAIN S /\ S[s].state \in {"aborted", "failed"} THEN "terminate"
    ELSE IF s \in DOMAIN S /\ S[s].state = "exited" THEN "exit"
    ELSE "check"

\* load_exit_reason(id) or "".
LoadExitReason(S, s) ==
    IF s \in DOMAIN S /\ S[s].exit_reason # "none" THEN S[s].exit_reason ELSE ""

\* run_agent_checker after the wait: the verdicts the checker session can yield.
AgentVerdicts(S, s) ==
    IF s \in DOMAIN S /\ S[s].state \in {"aborted", "failed", "exited"}
    THEN {"retry"}
    ELSE Verdicts

\* HistoryEntry numbering the iterations from 1.
HistoryEntryOneBased(it, doer, v) ==
    [iteration |-> it + 1, doer_session |-> doer, verdict |-> v]

\* run_loop, the history entry of one iteration.
HistoryEntry(it, doer, v) == [iteration |-> it, doer_session |-> doer, verdict |-> v]

\* AfterVerdict without the iteration budget test.
AfterVerdictNoBudget(v, it, max) ==
    IF v = "accept" THEN "accept"
    ELSE IF v = "terminate" THEN "terminate"
    ELSE "continue"

\* AfterVerdict without the return on accept.
AfterVerdictNoAccept(v, it, max) ==
    IF v = "terminate" THEN "terminate"
    ELSE IF it + 1 >= max THEN "max_iterations"
    ELSE "continue"

\* AfterVerdict without the return on terminate.
AfterVerdictNoTerminate(v, it, max) ==
    IF v = "accept" THEN "accept"
    ELSE IF it + 1 >= max THEN "max_iterations"
    ELSE "continue"

\* run_loop after persisting: return accept / terminate / max_iterations, or
\* go on to spawn the next doer.
AfterVerdict(v, it, max) ==
    IF v = "accept" THEN "accept"
    ELSE IF v = "terminate" THEN "terminate"
    ELSE IF it + 1 >= max THEN "max_iterations"
    ELSE "continue"

\* IterationsAt counting only the completed iterations.
IterationsAtZeroBased(it) == it

\* LoopResult.iterations on the paths that return inside the for loop.
IterationsAt(it) == it + 1

LoopIdle ==
    /\ max_iterations = 0
    /\ checkerKind = "command"
    /\ lpc = "off"
    /\ iteration = 0
    /\ history = <<>>
    /\ loopState = [current_iteration |-> 0, history |-> <<>>]
    /\ current_doer_id = NoSession
    /\ lsess = <<>>
    /\ exiting = {}
    /\ armed = NoSession
    /\ event = FALSE
    /\ verdict = "none"
    /\ checkerRuns = 0
    /\ retrySpawns = 0
    /\ ret = NoResult
    /\ doer_result = ""

\* spawn has saved the loop session, initialised loop_state.json with an empty
\* history and calls run_loop(session_id, ..., max_iterations, ...).
LoopInit ==
    /\ max_iterations \in 0..MaxIter
    /\ checkerKind \in {"command", "agent"}
    /\ lpc = "for"
    /\ iteration = 0
    /\ history = <<>>
    /\ loopState = [current_iteration |-> 0, history |-> <<>>]
    /\ current_doer_id = DoerKey(0)
    /\ lsess = (DoerKey(0) :> NewSession)
    /\ exiting = {}
    /\ armed = NoSession
    /\ event = FALSE
    /\ verdict = "none"
    /\ checkerRuns = 0
    /\ retrySpawns = 0
    /\ ret = NoResult
    /\ doer_result = ""

Return(v, its, reason, text, via) ==
    /\ ret' = [verdict |-> v, iterations |-> its, history |-> history,
               exit_reason |-> reason, result_text |-> text, via |-> via]
    /\ lpc' = "returned"

\* for iteration in range(max_iterations), and the return after the loop.
ForHead ==
    /\ lpc = "for"
    /\ IF iteration < max_iterations
       THEN lpc' = "d_load" /\ ret' = ret
       ELSE Return("max_iterations", max_iterations, "", "", "safety_net")
    /\ UNCHANGED <<max_iterations, checkerKind, iteration, history, loopState,
                   current_doer_id, lsess, exiting, armed, event, verdict,
                   checkerRuns, retrySpawns>>
    /\ UNCHANGED doer_result
    /\ UNCHANGED notLoop

\* wait_for_sessions: the initial load_session of the awaited session.
WaitLoad(at, s, armPc, donePc) ==
    /\ lpc = at
    /\ lpc' = IF NotPending(lsess, s) THEN donePc ELSE armPc
    /\ UNCHANGED <<max_iterations, checkerKind, iteration, history, loopState,
                   current_doer_id, lsess, exiting, armed, event, verdict,
                   checkerRuns, retrySpawns, ret>>
    /\ UNCHANGED doer_result
    /\ UNCHANGED notLoop

\* wait_for_sessions: watch(...) starts; changes made before this are not seen.
\* Watching a directory that no longer exists may also raise.
WaitArm(at, s, watchPc) ==
    /\ lpc = at
    /\ \/ lpc' = watchPc /\ armed' = s
       \/ s \notin DOMAIN lsess /\ lpc' = "crashed" /\ armed' = armed
    /\ event' = FALSE
    /\ UNCHANGED <<max_iterations, checkerKind, iteration, history, loopState,
                   current_doer_id, lsess, exiting, verdict, checkerRuns,
                   retrySpawns, ret>>
    /\ UNCHANGED doer_result
    /\ UNCHANGED notLoop

\* wait_for_sessions: a change of the watched state file is delivered.
WatchEvent(at, s, donePc) ==
    /\ lpc = at
    /\ event
    /\ event' = FALSE
    /\ IF SeenTerminal(lsess, s)
       THEN lpc' = donePc /\ armed' = NoSession
       ELSE lpc' = lpc /\ armed' = armed
    /\ UNCHANGED <<max_iterations, checkerKind, iteration, history, loopState,
                   current_doer_id, lsess, exiting, verdict, checkerRuns,
                   retrySpawns, ret>>
    /\ UNCHANGED doer_result
    /\ UNCHANGED notLoop

DoerWaitLoad == WaitLoad("d_load", current_doer_id, "d_arm", "d_check")
DoerWaitArm == WaitArm("d_arm", current_doer_id, "d_watch")
DoerWatchEvent == WatchEvent("d_watch", current_doer_id, "d_check")
CheckerWaitLoad == WaitLoad("c_load", CheckKey(iteration), "c_arm", "c_read")
CheckerWaitArm == WaitArm("c_arm", CheckKey(iteration), "c_watch")
CheckerWatchEvent == WatchEvent("c_watch", CheckKey(iteration), "c_read")

\* run_loop: read_result and load_session of current_doer_id, and the
\* aborted / failed / exited tests.
DoerLoad ==
    /\ lpc = "d_check"
    /\ LET o == DoerOutcome(lsess, current_doer_id) IN
        IF o = "terminate"
        THEN Return("terminate", IterationsAt(iteration), "",
                    read_result_file(lsess, current_doer_id), "doer_failed")
        ELSE /\ lpc' = IF o = "exit" THEN "d_reason" ELSE "checker"
             /\ ret' = ret
    /\ doer_result' = read_result_file(lsess, current_doer_id)
    /\ UNCHANGED <<max_iterations, checkerKind, iteration, history, loopState,
                   current_doer_id, lsess, exiting, armed, event, verdict,
                   checkerRuns, retrySpawns>>
    /\ UNCHANGED notLoop

\* run_loop: the doer exited; load_exit_reason and return verdict exit.
DoerExited ==
    /\ lpc = "d_reason"
    /\ Return("exit", IterationsAt(iteration),
              LoadExitReason(lsess, current_doer_id), doer_result, "doer_exited")
    /\ UNCHANGED <<max_iterations, checkerKind, iteration, history, loopState,
                   current_doer_id, lsess, exiting, armed, event, verdict,
                   checkerRuns, retrySpawns>>
    /\ UNCHANGED doer_result
    /\ UNCHANGED notLoop

\* run_checker with a shell command: run_command_checker yields the verdict.
RunCommandChecker ==
    /\ lpc = "checker"
    /\ checkerKind = "command"
    /\ verdict' \in Verdicts
    /\ checkerRuns' = checkerRuns + 1
    /\ lpc' = "record"
    /\ UNCHANGED <<max_iterations, checkerKind, iteration, history, loopState,
                   current_doer_id, lsess, exiting, armed, event, retrySpawns, ret>>
    /\ UNCHANGED doer_result
    /\ UNCHANGED notLoop

\* run_checker with an agent: spawn_session creates the checker session, or
\* the spawn fails and spawn_session raises SystemExit.
SpawnChecker ==
    /\ lpc = "checker"
    /\ checkerKind = "agent"
    /\ checkerRuns' = checkerRuns + 1
    /\ \/ /\ lsess' = (CheckKey(iteration) :> NewSession) @@ lsess
          /\ lpc' = "c_load"
       \/ /\ lsess' = lsess
          /\ lpc' = "crashed"
    /\ UNCHANGED <<max_iterations, checkerKind, iteration, history, loopState,
                   current_doer_id, exiting, armed, event, verdict, retrySpawns,
                   ret>>
    /\ UNCHANGED doer_result
    /\ UNCHANGED notLoop

\* run_agent_checker after the wait: state test, read_result, parse_verdict.
CheckerRead ==
    /\ lpc = "c_read"
    /\ verdict' \in AgentVerdicts(lsess, CheckKey(iteration))
    /\ lpc' = "record"
    /\ UNCHANGED <<max_iterations, checkerKind, iteration, history, loopState,
                   current_doer_id, lsess, exiting, armed, event, checkerRuns,
                   retrySpawns, ret>>
    /\ UNCHANGED doer_result
    /\ UNCHANGED notLoop

\* run_loop: append the history entry and save_loop_state.
RecordVerdict ==
    /\ lpc = "record"
    /\ history' = Append(history, HistoryEntry(iteration, current_doer_id, verdict))
    /\ loopState' = [current_iteration |-> iteration, history |-> history']
    /\ lpc' = "decide"
    /\ UNCHANGED <<max_iterations, checkerKind, iteration, current_doer_id, lsess,
                   exiting, armed, event, verdict, checkerRuns, retrySpawns, ret>>
    /\ UNCHANGED doer_result
    /\ UNCHANGED notLoop

\* run_loop: return on accept, terminate or an exhausted budget, else retry.
Decide ==
    /\ lpc = "decide"
    /\ LET o == AfterVerdict(verdict, iteration, max_iterations) IN
        IF o = "continue"
        THEN lpc' = "spawn_retry" /\ ret' = ret
        ELSE Return(o, IterationsAt(iteration), "", doer_result, "checker")
    /\ UNCHANGED <<max_iterations, checkerKind, iteration, history, loopState,
                   current_doer_id, lsess, exiting, armed, event, verdict,
                   checkerRuns, retrySpawns>>
    /\ UNCHANGED doer_result
    /\ UNCHANGED notLoop

\* run_loop: spawn_session for the next doer, which becomes current_doer_id;
\* the for loop then moves to the next iteration.
SpawnRetry ==
    /\ lpc = "spawn_retry"
    /\ lsess' = (DoerKey(iteration + 1) :> NewSession) @@ lsess
    /\ current_doer_id' = DoerKey(iteration + 1)
    /\ retrySpawns' = retrySpawns + 1
    /\ iteration' = iteration + 1
    /\ lpc' = "for"
    /\ UNCHANGED <<max_iterations, checkerKind, history, loopState, exiting, armed,
                   event, verdict, checkerRuns, ret>>
    /\ UNCHANGED doer_result
    /\ UNCHANGED notLoop

\* run_loop: the spawn of the next doer fails, spawn_session raises SystemExit.
SpawnRetryFails ==
    /\ lpc = "spawn_retry"
    /\ lpc' = "crashed"
    /\ UNCHANGED <<max_iterations, checkerKind, iteration, history, loopState,
                   current_doer_id, lsess, exiting, armed, event, verdict,
                   checkerRuns, retrySpawns, ret>>
    /\ UNCHANGED doer_result
    /\ UNCHANGED notLoop

\* A write to (or the removal of) the state file of s reaches a running watch.
Notify(s) == event' = (event \/ armed = s)

\* The hook handler gives a running loop session its terminal state; a
\* session that completes has written its result file.
LoopHookTerminal ==
    /\ \E s \in DOMAIN lsess, st \in {"done", "aborted", "failed"} :
        /\ lsess[s].state = "running"
        /\ lsess' = [lsess EXCEPT ![s].state = st,
                                  ![s].result = IF st = "done" THEN OutputOf(s) ELSE @]
        /\ Notify(s)
    /\ UNCHANGED <<max_iterations, checkerKind, lpc, iteration, history, loopState,
                   current_doer_id, exiting, armed, verdict, checkerRuns,
                   retrySpawns, ret>>
    /\ UNCHANGED doer_result
    /\ UNCHANGED notLoop

\* scope exit inside a loop session, first write: update_state(id, "exited").
LoopExitState ==
    /\ \E s \in DOMAIN lsess :
        /\ s \notin exiting
        /\ lsess[s].state # "exited"
        /\ lsess' = [lsess EXCEPT ![s].state = "exited"]
        /\ exiting' = exiting \cup {s}
        /\ Notify(s)
    /\ UNCHANGED <<max_iterations, checkerKind, lpc, iteration, history, loopState,
                   current_doer_id, armed, verdict, checkerRuns, retrySpawns, ret>>
    /\ UNCHANGED doer_result
    /\ UNCHANGED notLoop

\* scope exit, second write: save_exit_reason(id, reason).
LoopExitReason ==
    /\ \E s \in exiting, r \in Reasons :
        /\ exiting' = exiting \ {s}
        /\ lsess' = IF s \in DOMAIN lsess
                    THEN [lsess EXCEPT ![s].exit_reason = r]
                    ELSE lsess
    /\ UNCHANGED <<max_iterations, checkerKind, lpc, iteration, history, loopState,
                   current_doer_id, armed, event, verdict, checkerRuns,
                   retrySpawns, ret>>
    /\ UNCHANGED doer_result
    /\ UNCHANGED notLoop

\* scope abort of a loop session: its directory is deleted.
LoopAbort ==
    /\ \E s \in DOMAIN lsess :
        /\ lsess' = Remove(lsess, s)
        /\ Notify(s)
    /\ UNCHANGED <<max_iterations, checkerKind, lpc, iteration, history, loopState,
                   current_doer_id, exiting, armed, verdict, checkerRuns,
                   retrySpawns, ret>>
    /\ UNCHANGED doer_result
    /\ UNCHANGED notLoop

\* ------------------------------------------- the checker phase, in detail
\* One pass through run_loop's checker phase (hash, run_checker, entry), with
\* the rubric file and the checker session changing underneath it.

\* A rubric file is a sequence of "## heading" sections with their list items.
Section(heading, items) == [heading |-> heading, items |-> items]

EmptyRubric == <<>>
Rubrics ==
    { EmptyRubric,
      <<Section("gates", <<"g1", "g2">>)>>,
      <<Section("criteria", <<"c1">>)>>,
      <<Section("gates", <<"g1", "g2">>), Section("criteria", <<"c1">>)>>,
      <<Section("gates", <<"g1">>), Section("nice to have", <<"n1">>)>> }

\* parse_rubric: the items of the sections with one of the given headings.
RECURSIVE SectionItems(_, _)
SectionItems(text, headings) ==
    IF text = <<>> THEN <<>>
    ELSE (IF Head(text).heading \in headings THEN Head(text).items ELSE <<>>)
            \o SectionItems(Tail(text), headings)

parse_rubric(text) ==
    [gates |-> SectionItems(text, {"gates"}),
     criteria |-> SectionItems(text, {"criteria"}),
     nice_to_have |-> SectionItems(text, {"nice to have", "nice-to-have"})]

has_gates(r) == r.gates # <<>>
has_criteria(r) == r.criteria # <<>> \/ r.nice_to_have # <<>>

\* rubric_hash: a digest of the content (collisions are not modelled).
rubric_hash(content) == <<"sha256", content>>
NoHash == <<>>

\* load_rubric: (parsed, content, hash).
load_rubric(content) ==
    [parsed |-> parse_rubric(content), content |-> content,
     hash |-> rubric_hash(content)]
NoRubric == [parsed |-> parse_rubric(EmptyRubric), content |-> EmptyRubric, hash |-> NoHash]

\* A line of a result file is the set of words it contains; {} is a blank line.
Words == {"TERMINATE", "accept", "RETRY", "ok"}
Lines == SUBSET Words
Blank == {}

\* The result files the checker session writes in the checker phase.
Results ==
    { <<>>,
      <<Blank>>,
      <<{"ok"}>>,
      <<{"ok"}, {"accept"}, Blank>>,
      <<{"RETRY"}, {"ok"}>>,
      <<{"accept"}, {"ok", "TERMINATE"}>> }

\* str.strip() on a text: leading and trailing blank lines go.
RECURSIVE StripHead(_)
StripHead(t) == IF t # <<>> /\ Head(t) = Blank THEN StripHead(Tail(t)) ELSE t
RECURSIVE StripTail(_)
StripTail(t) ==
    IF t # <<>> /\ t[Len(t)] = Blank THEN StripTail(SubSeq(t, 1, Len(t) - 1)) ELSE t
Strip(t) == StripTail(StripHead(t))

\* str.upper() on a word.
Upper(w) == IF w = "accept" THEN "ACCEPT" ELSE IF w = "ok" THEN "OK" ELSE w
LineUpper(line) == {Upper(w) : w \in line}

Feedback(kind, text) == [kind |-> kind, text |-> text]

\* parse_verdict's loop over the lines of the response, last line first.
RECURSIVE ScanReversed(_, _)
ScanReversed(lines, i) ==
    IF i = 0 THEN "retry"
    ELSE IF "TERMINATE" \in LineUpper(lines[i]) THEN "terminate"
    ELSE IF "ACCEPT" \in LineUpper(lines[i]) THEN "accept"
    ELSE IF "RETRY" \in LineUpper(lines[i]) THEN "retry"
    ELSE ScanReversed(lines, i - 1)

\* The same loop over the lines in file order.
RECURSIVE ScanForward(_, _)
ScanForward(lines, i) ==
    IF i > Len(lines) THEN "retry"
    ELSE IF "TERMINATE" \in LineUpper(lines[i]) THEN "terminate"
    ELSE IF "ACCEPT" \in LineUpper(lines[i]) THEN "accept"
    ELSE IF "RETRY" \in LineUpper(lines[i]) THEN "retry"
    ELSE ScanForward(lines, i + 1)

\* parse_verdict scanning from the first line.
ParseVerdictFirstLine(response) ==
    [verdict |-> ScanForward(Strip(response), 1), feedback |-> response]

\* parse_verdict: (verdict, feedback), the feedback being the whole response.
parse_verdict(response) ==
    [verdict |-> ScanReversed(Strip(response), Len(Strip(response))),
     feedback |-> response]

NoVerdict == [verdict |-> "none", feedback |-> <<>>]

\* How running a shell command can end.
Outcomes == {"exit0", "nonzero", "timeout", "oserror"}

\* run_command_checker: (verdict, feedback) for each way the command ends.
run_command_checker(outcome) ==
    IF outcome = "exit0" THEN [verdict |-> "accept", feedback |-> Feedback("stdout", <<>>)]
    ELSE IF outcome = "nonzero" THEN [verdict |-> "retry", feedback |-> Feedback("output", <<>>)]
    ELSE IF outcome = "timeout" THEN [verdict |-> "retry", feedback |-> Feedback("timeout", <<>>)]
    ELSE [verdict |-> "terminate", feedback |-> Feedback("oserror", <<>>)]

\* run_gates: every gate is run; its verdict is pass for accept, fail otherwise.
run_gates(gates, outcomes) ==
    [i \in 1..Len(gates) |->
        [command |-> gates[i],
         verdict |-> IF run_command_checker(outcomes[i]).verdict = "accept"
                     THEN "pass" ELSE "fail",
         output |-> run_command_checker(outcomes[i]).feedback.kind]]

gates_pass(results) == \A i \in 1..Len(results) : results[i].verdict = "pass"

CheckerResult(v, fb, cid, gates) ==
    [verdict |-> v, feedback |-> fb, checker_session_id |-> cid, gate_results |-> gates]

NoOut == CheckerResult("none", Feedback("none", <<>>), NoSession, <<>>)

\* GatesOnlyVerdict accepting as soon as one gate passes.
GatesOnlyVerdictAny(results) ==
    IF results = <<>>
    THEN CheckerResult("accept", Feedback("empty_rubric", <<>>), NoSession, <<>>)
    ELSE IF \E i \in 1..Len(results) : results[i].verdict = "pass"
    THEN CheckerResult("accept", Feedback("gate_summary", <<>>), NoSession, results)
    ELSE CheckerResult("retry", Feedback("gate_feedback", <<>>), NoSession, results)

\* run_rubric_checker, the branch without criteria.
GatesOnlyVerdict(results) ==
    IF results = <<>>
    THEN CheckerResult("accept", Feedback("empty_rubric", <<>>), NoSession, <<>>)
    ELSE IF gates_pass(results)
    THEN CheckerResult("accept", Feedback("gate_summary", <<>>), NoSession, results)
    ELSE CheckerResult("retry", Feedback("gate_feedback", <<>>), NoSession, results)

\* CompositeVerdict testing the gates before the agent's terminate.
CompositeVerdictGatesFirst(results, agent, cid) ==
    IF ~gates_pass(results)
    THEN CheckerResult("retry", Feedback("gates_and_agent", agent.feedback), cid, results)
    ELSE IF agent.verdict = "terminate"
    THEN CheckerResult("terminate", Feedback("response", agent.feedback), cid, results)
    ELSE IF agent.verdict = "accept"
    THEN CheckerResult("accept", Feedback("response", agent.feedback), cid, results)
    ELSE CheckerResult("retry", Feedback("response", agent.feedback), cid, results)

\* run_rubric_checker, step 3: the composite verdict of gates and agent.
CompositeVerdict(results, agent, cid) ==
    IF agent.verdict = "terminate"
    THEN CheckerResult("terminate", Feedback("response", agent.feedback), cid, results)
    ELSE IF ~gates_pass(results)
    THEN CheckerResult("retry", Feedback("gates_and_agent", agent.feedback), cid, results)
    ELSE IF agent.verdict = "accept"
    THEN CheckerResult("accept", Feedback("response", agent.feedback), cid, results)
    ELSE CheckerResult("retry", Feedback("response", agent.feedback), cid, results)

\* CheckerFailed without the exited state.
CheckerFailedNoExited(st) == st \in {"aborted", "failed"}

\* The test on the loaded checker session: session and session.state in {...}.
CheckerFailed(st) == st \in {"aborted", "failed", "exited"}

\* read_result: the stripped result file, "" when there is none.
read_result(s) == IF s.state \in {"none", "missing"} THEN <<>> ELSE Strip(s.result)

NoChecker == [state |-> "none", result |-> <<>>]
NoSeen == [state |-> "none", response |-> <<>>, agent |-> NoVerdict]

\* The entry run_loop appends, with the optional keys it adds.
FullEntry(it, doer, o, hash) ==
    [iteration |-> it, doer_session |-> doer, verdict |-> o.verdict,
     feedback |-> o.feedback, checker_session |-> o.checker_session_id,
     gates |-> o.gate_results, rubric_hash |-> hash]

NoEntry == FullEntry(0, NoSession, NoOut, NoHash)

CheckIdle ==
    /\ checker = "cmd"
    /\ rubric_path = ""
    /\ rubricFile = EmptyRubric
    /\ edits = 0
    /\ cpc = "off"
    /\ iter_rubric_hash = NoHash
    /\ rubric = NoRubric
    /\ gate_results = <<>>
    /\ csess = NoChecker
    /\ seen = NoSeen
    /\ out = NoOut
    /\ entry = NoEntry

\* run_loop has found the doer finished and reaches the checker phase.
CheckInit ==
    /\ \/ checker = "cmd" /\ rubric_path = ""
       \/ checker = "agent:" /\ rubric_path = ""
       \/ checker = "cmd" /\ rubric_path = "rubric.md"
    /\ rubricFile \in (IF rubric_path = "" THEN {EmptyRubric} ELSE Rubrics)
    /\ edits = 0
    /\ cpc = "hash"
    /\ iter_rubric_hash = NoHash
    /\ rubric = NoRubric
    /\ gate_results = <<>>
    /\ csess = NoChecker
    /\ seen = NoSeen
    /\ out = NoOut
    /\ entry = NoEntry

\* run_loop: iter_rubric_hash from a first read of the rubric file.
ComputeHash ==
    /\ cpc = "hash"
    /\ iter_rubric_hash' = IF rubric_path # "" THEN load_rubric(rubricFile).hash ELSE NoHash
    /\ cpc' = "run_checker"
    /\ UNCHANGED <<checker, rubric_path, rubricFile, edits, rubric, gate_results,
                   csess, seen, out, entry>>
    /\ UNCHANGED notCheck

\* run_checker with a rubric_path: load_rubric reads the file again.
LoadRubric ==
    /\ cpc = "run_checker"
    /\ rubric_path # ""
    /\ rubric' = load_rubric(rubricFile)
    /\ cpc' = "gates"
    /\ UNCHANGED <<checker, rubric_path, rubricFile, edits, iter_rubric_hash,
                   gate_results, csess, seen, out, entry>>
    /\ UNCHANGED notCheck

\* run_rubric_checker, steps 1 and (without criteria) 3: the gates are run.
RunGates ==
    /\ cpc = "gates"
    /\ \E outcomes \in [1..Len(rubric.parsed.gates) -> Outcomes] :
        /\ gate_results' = run_gates(rubric.parsed.gates, outcomes)
        /\ IF has_criteria(rubric.parsed)
           THEN cpc' = "spawn" /\ out' = out
           ELSE cpc' = "entry" /\ out' = GatesOnlyVerdict(gate_results')
    /\ UNCHANGED <<checker, rubric_path, rubricFile, edits, iter_rubric_hash,
                   rubric, csess, seen, entry>>
    /\ UNCHANGED notCheck

\* run_checker, legacy path with a shell command.
RunLegacyCommand ==
    /\ cpc = "run_checker"
    /\ rubric_path = ""
    /\ checker = "cmd"
    /\ \E o \in Outcomes :
        out' = CheckerResult(run_command_checker(o).verdict,
                             run_command_checker(o).feedback, NoSession, <<>>)
    /\ cpc' = "entry"
    /\ UNCHANGED <<checker, rubric_path, rubricFile, edits, iter_rubric_hash,
                   rubric, gate_results, csess, seen, entry>>
    /\ UNCHANGED notCheck

\* spawn_session for the checker, from run_agent_checker or run_rubric_checker:
\* the session starts running, or the spawn fails and SystemExit is raised.
SpawnCheckerSession ==
    /\ \/ cpc = "spawn"
       \/ cpc = "run_checker" /\ rubric_path = "" /\ checker = "agent:"
    /\ \/ csess' = [state |-> "running", result |-> <<>>] /\ cpc' = "wait"
       \/ csess' = csess /\ cpc' = "crashed"
    /\ UNCHANGED <<checker, rubric_path, rubricFile, edits, iter_rubric_hash,
                   rubric, gate_results, seen, out, entry>>
    /\ UNCHANGED notCheck

\* wait_for_sessions([checker_id]) returns: the session is terminal or gone.
WaitChecker ==
    /\ cpc = "wait"
    /\ csess.state # "running"
    /\ cpc' = "read"
    /\ UNCHANGED <<checker, rubric_path, rubricFile, edits, iter_rubric_hash,
                   rubric, gate_results, csess, seen, out, entry>>
    /\ UNCHANGED notCheck

\* After the wait: load_session, the state test, read_result, parse_verdict,
\* and for a rubric the composite verdict.
ReadChecker ==
    /\ cpc = "read"
    /\ LET response == read_result(csess)
           cid == CheckKey(iteration)
           early == CheckerFailed(csess.state) \/ response = <<>>
           agent == IF early THEN NoVerdict ELSE parse_verdict(response)
       IN /\ seen' = [state |-> csess.state, response |-> response, agent |-> agent]
          /\ out' =
               IF CheckerFailed(csess.state)
               THEN CheckerResult("retry", Feedback("ended_with_state", <<>>), cid,
                                  gate_results)
               ELSE IF response = <<>>
               THEN CheckerResult("retry", Feedback("no_output", <<>>), cid, gate_results)
               ELSE IF rubric_path # ""
               THEN CompositeVerdict(gate_results, agent, cid)
               ELSE CheckerResult(agent.verdict, Feedback("response", agent.feedback),
                                  cid, <<>>)
    /\ cpc' = "entry"
    /\ UNCHANGED <<checker, rubric_path, rubricFile, edits, iter_rubric_hash,
                   rubric, gate_results, csess, entry>>
    /\ UNCHANGED notCheck

\* run_loop: the history entry of the iteration.
BuildEntry ==
    /\ cpc = "entry"
    /\ entry' = FullEntry(iteration, session_id, out, iter_rubric_hash)
    /\ cpc' = "done"
    /\ UNCHANGED <<checker, rubric_path, rubricFile, edits, iter_rubric_hash,
                   rubric, gate_results, csess, seen, out>>
    /\ UNCHANGED notCheck

\* The user edits the rubric file while the loop runs.
EditRubric ==
    /\ rubric_path # ""
    /\ edits < MaxEdits
    /\ rubricFile' \in Rubrics \ {rubricFile}
    /\ edits' = edits + 1
    /\ UNCHANGED <<checker, rubric_path, cpc, iter_rubric_hash, rubric,
                   gate_results, csess, seen, out, entry>>
    /\ UNCHANGED notCheck

\* The checker session writes its result and reaches a terminal state.
CheckerEnds ==
    /\ csess.state = "running"
    /\ \E st \in TERMINAL_STATES, r \in Results :
        csess' = [state |-> st, result |-> r]
    /\ UNCHANGED <<checker, rubric_path, rubricFile, edits, cpc, iter_rubric_hash,
                   rubric, gate_results, seen, out, entry>>
    /\ UNCHANGED notCheck

\* scope abort of the checker session: its directory is deleted.
CheckerAborted ==
    /\ csess.state \notin {"none", "missing"}
    /\ csess' = [state |-> "missing", result |-> <<>>]
    /\ UNCHANGED <<checker, rubric_path, rubricFile, edits, cpc, iter_rubric_hash,
                   rubric, gate_results, seen, out, entry>>
    /\ UNCHANGED notCheck

\* Every response of at most MaxLines lines.
Responses == UNION {[1..n -> Lines] : n \in 0..MaxLines}

\* parse_verdict is about to be called on some response.
ParseInit ==
    /\ checker = "agent:"
    /\ rubric_path = ""
    /\ rubricFile = EmptyRubric
    /\ edits = 0
    /\ cpc = "parse"
    /\ iter_rubric_hash = NoHash
    /\ rubric = NoRubric
    /\ gate_results = <<>>
    /\ csess = NoChecker
    /\ \E r \in Responses : seen = [state |-> "done", response |-> r, agent |-> NoVerdict]
    /\ out = NoOut
    /\ entry = NoEntry

\* verdict, feedback = parse_verdict(response).
ParseVerdict ==
    /\ cpc = "parse"
    /\ seen' = [seen EXCEPT !.agent = parse_verdict(seen.response)]
    /\ cpc' = "parsed"
    /\ UNCHANGED <<checker, rubric_path, rubricFile, edits, iter_rubric_hash,
                   rubric, gate_results, csess, out, entry>>
    /\ UNCHANGED notCheck

CheckStep ==
    \/ ComputeHash
    \/ LoadRubric
    \/ RunGates
    \/ RunLegacyCommand
    \/ SpawnCheckerSession
    \/ WaitChecker
    \/ ReadChecker
    \/ BuildEntry

CheckEnv == EditRubric \/ CheckerEnds \/ CheckerAborted

CheckNext == CheckStep \/ CheckEnv


\* ------------------------------------------------------------------------
\* Session names as the code builds them, by string formatting: next_id for
\* `scope spawn`, iter_session_id for the children of a loop.  A session
\* spawned by `scope spawn` runs a loop (SCOPE_SKIP_LOOP is not set in the
\* window's environment); a loop child does not (spawn_session sets it).

\* next_id, child branch: one more than the largest direct child index among
\* the directory names that are parent + "." + an integer.
next_id(parent, dirs) ==
    LET idx == {n \in 0..MaxNames : PlainChildId(parent, n) \in dirs}
        max_child == IF idx = {} THEN -1 ELSE Max(idx)
    IN  PlainChildId(parent, max_child + 1)

IdIdle ==
    /\ names = <<>>
    /\ counterFile = NoFile

IdInit ==
    /\ names = <<>>
    /\ counterFile \in {NoFile, 1}

\* `scope spawn` run by the user, SCOPE_SESSION_ID not set: next_id("").
SpawnRootSession ==
    /\ Cardinality(DOMAIN names) < MaxNames
    /\ LET cur == IF counterFile = NoFile THEN 0 ELSE counterFile
       IN  /\ counterFile' = cur + 1
           /\ names' = (ToString(cur) :> [loop |-> TRUE]) @@ names
    /\ UNCHANGED notId

\* `scope spawn` run by the agent inside session s: the window of s was
\* created with SCOPE_SESSION_ID = s, so parent = s and the id is next_id(s).
SpawnSubSession ==
    /\ Cardinality(DOMAIN names) < MaxNames
    /\ \E s \in DOMAIN names :
          names' = (next_id(s, DOMAIN names) :> [loop |-> TRUE]) @@ names
    /\ UNCHANGED counterFile
    /\ UNCHANGED notId

\* run_loop of loop session L spawns the checker of iteration it, or the
\* retry doer of iteration it >= 1, under iter_session_id(L, it, role).
SpawnLoopChild ==
    /\ Cardinality(DOMAIN names) < MaxNames
    /\ \E L \in DOMAIN names, it \in 0..(MaxIter - 1), role \in Roles :
          /\ names[L].loop
          /\ role = "do" => it >= 1
          /\ iter_session_id(L, it, role) \notin DOMAIN names
          /\ names' = (iter_session_id(L, it, role) :> [loop |-> FALSE]) @@ names
    /\ UNCHANGED counterFile
    /\ UNCHANGED notId

IdNext == SpawnRootSession \/ SpawnSubSession \/ SpawnLoopChild


\* ------------------------------------------------------------------------
\* The workflow builder (workflow.py): Workflow.phase registers phases,
\* Workflow.run spawns one loop per phase and reconstructs its LoopResult
\* from what the loop left on disk.

PhaseNames == {"a", "b", "c"}
OnFails == {"stop", "continue", "retry:1"}
\* the pipe_from argument; None and [] are both the empty list for phase()
PipeArgs == {<<>>} \cup {<<n>> : n \in PhaseNames}

Phase(name, on_fail, pipe_from) ==
    [name |-> name, on_fail |-> on_fail, pipe_from |-> pipe_from]

\* What one `scope spawn` subprocess (a whole run_loop) can leave behind:
\* ret is the LoopResult run_loop returned; session_id is the first line of
\* the subprocess output; state, history (verdicts), exit_reason and result
\* are the files of the loop session.  A retry doer L-1-do that exits leaves
\* its state and reason in its own directory, not in that of L, and so it
\* does with its result.
LoopRun(v, reason, text, id, state, hist, file, result) ==
    [ret |-> [verdict |-> v, exit_reason |-> reason, result_text |-> text],
     session_id |-> id, state |-> state, history |-> hist,
     exit_reason |-> file, result |-> result]

LoopRuns ==
    { LoopRun("accept", "", "out0", "0", "done", <<"accept">>, "", "out0"),
      LoopRun("accept", "", "out1", "0", "done", <<"retry", "accept">>, "", "out0"),
      LoopRun("terminate", "", "out0", "0", "done", <<"terminate">>, "", "out0"),
      LoopRun("max_iterations", "", "out1", "0", "done", <<"retry", "retry">>, "", "out0"),
      LoopRun("exit", "r1", "", "0", "exited", <<>>, "r1", ""),
      LoopRun("exit", "r1", "", "0", "done", <<"retry">>, "", "out0"),
      LoopRun("terminate", "", "", "0", "failed", <<>>, "", ""),
      LoopRun("none", "", "", "", "missing", <<>>, "", "") }

NoRun == LoopRun("none", "", "", "", "missing", <<>>, "", "")

LoopResult(id, v, its, reason, text) ==
    [session_id |-> id, verdict |-> v, iterations |-> its, exit_reason |-> reason,
     result_text |-> text]

\* _read_loop_result with the history consulted before the session state.
ReadLoopResultHistoryFirst(d) ==
    IF d.session_id = "" THEN LoopResult("", "terminate", 0, "", "spawn failed")
    ELSE IF d.history # <<>>
    THEN LET last_verdict == d.history[Len(d.history)]
         IN  LoopResult(d.session_id,
                        IF last_verdict = "accept" THEN "accept"
                        ELSE IF last_verdict = "terminate" THEN "terminate"
                        ELSE "max_iterations",
                        Len(d.history), "", d.result)
    ELSE IF d.state = "exited"
    THEN LoopResult(d.session_id, "exit", Len(d.history), d.exit_reason, d.result)
    ELSE IF d.state \in {"aborted", "failed"}
    THEN LoopResult(d.session_id, "terminate", Len(d.history), "", d.result)
    ELSE LoopResult(d.session_id, "max_iterations", 1, "", d.result)

\* _read_loop_result: the LoopResult rebuilt from the persisted session.  A
\* missing session directory is state "missing" (load_session returns None).
read_loop_result(d) ==
    IF d.session_id = "" THEN LoopResult("", "terminate", 0, "", "spawn failed")
    ELSE IF d.state = "exited"
    THEN LoopResult(d.session_id, "exit", Len(d.history), d.exit_reason, d.result)
    ELSE IF d.state \in {"aborted", "failed"}
    THEN LoopResult(d.session_id, "terminate", Len(d.history), "", d.result)
    ELSE IF d.history # <<>>
    THEN LET last_verdict == d.history[Len(d.history)]
         IN  LoopResult(d.session_id,
                        IF last_verdict = "accept" THEN "accept"
                        ELSE IF last_verdict = "terminate" THEN "terminate"
                        ELSE "max_iterations",
                        Len(d.history), "", d.result)
    ELSE LoopResult(d.session_id, "max_iterations", 1, "", d.result)

\* What _read_loop_result finds for the loop session run_loop ran on: its
\* state, loop_state.json history (the verdicts), exit_reason and result.
\* All of them live in the loop session's own directory.
LoopDisk ==
    IF session_id \in DOMAIN lsess
    THEN [session_id |-> session_id,
          state |-> lsess[session_id].state,
          history |-> [k \in DOMAIN loopState.history |-> loopState.history[k].verdict],
          exit_reason |-> LoadExitReason(lsess, session_id),
          result |-> read_result_file(lsess, session_id)]
    ELSE [session_id |-> session_id, state |-> "missing", history |-> <<>>,
          exit_reason |-> "", result |-> ""]

\* loop_state.json of the loop session as a reader finds it: the history
\* last saved, nothing once the session directory has been deleted.
PersistedHistory == IF session_id \in DOMAIN lsess THEN loopState.history ELSE <<>>

PhaseResult(name, loop_result) ==
    [phase_name |-> name, loop_result |-> loop_result,
     passed |-> (loop_result.verdict = "accept")]

NoCall == Phase("", "", <<>>)

WfIdle ==
    /\ phases = <<>>
    /\ phase_names = {}
    /\ call = NoCall
    /\ raised = FALSE
    /\ wpc = "off"
    /\ wi = 0
    /\ cmds = <<>>
    /\ disk = NoRun
    /\ run_results = <<>>

\* Workflow.__init__
WfInit ==
    /\ phases = <<>>
    /\ phase_names = {}
    /\ call = NoCall
    /\ raised = FALSE
    /\ wpc = "build"
    /\ wi = 0
    /\ cmds = <<>>
    /\ disk = NoRun
    /\ run_results = <<>>

\* Workflow.phase: the two checks, which raise ValueError.
PhaseRejectedNoPipeCheck(name, pipe_from) == name \in phase_names

PhaseRejected(name, pipe_from) ==
    \/ name \in phase_names
    \/ \E k \in DOMAIN pipe_from : pipe_from[k] \notin phase_names

\* Workflow.phase returning the registered Phase.
RegisterPhase ==
    /\ wpc = "build"
    /\ \E name \in PhaseNames, on_fail \in OnFails, pipe_from \in PipeArgs :
          /\ ~PhaseRejected(name, pipe_from)
          /\ call' = Phase(name, on_fail, pipe_from)
          /\ phases' = Append(phases, Phase(name, on_fail, pipe_from))
          /\ phase_names' = phase_names \cup {name}
    /\ raised' = FALSE
    /\ UNCHANGED <<wpc, wi, cmds, disk, run_results>>
    /\ UNCHANGED notWf

\* Workflow.phase raising ValueError.
RegisterPhaseRaises ==
    /\ wpc = "build"
    /\ \E name \in PhaseNames, on_fail \in OnFails, pipe_from \in PipeArgs :
          /\ PhaseRejected(name, pipe_from)
          /\ call' = Phase(name, on_fail, pipe_from)
    /\ raised' = TRUE
    /\ UNCHANGED <<phases, phase_names, wpc, wi, cmds, disk, run_results>>
    /\ UNCHANGED notWf

\* Workflow.run up to the head of its for loop.
RunBegin ==
    /\ wpc = "build"
    /\ IF phases = <<>>
       THEN wpc' = "returned" /\ wi' = 0
       ELSE wpc' = "spawn" /\ wi' = 1
    /\ raised' = FALSE
    /\ call' = NoCall
    /\ UNCHANGED <<phases, phase_names, cmds, disk, run_results>>
    /\ UNCHANGED notWf

\* subprocess.run of `scope spawn`, which blocks until the loop completes.
PhaseSpawn ==
    /\ wpc = "spawn"
    /\ cmds' = Append(cmds, phases[wi].name)
    /\ disk' \in LoopRuns
    /\ wpc' = "read"
    /\ UNCHANGED <<phases, phase_names, call, raised, wi, run_results>>
    /\ UNCHANGED notWf

\* _read_loop_result and the PhaseResult stored under the phase's name.
PhaseRead ==
    /\ wpc = "read"
    /\ LET r == PhaseResult(phases[wi].name, read_loop_result(disk))
       IN  run_results' = (phases[wi].name :> r) @@ run_results
    /\ wpc' = "decide"
    /\ UNCHANGED <<phases, phase_names, call, raised, wi, cmds, disk>>
    /\ UNCHANGED notWf

\* The end of the loop body: go on when passed or on_fail is continue.
ProceedsOnlyIfPassed(r, on_fail) == r.passed

Proceeds(r, on_fail) == r.passed \/ on_fail = "continue"

PhaseDecide ==
    /\ wpc = "decide"
    /\ IF Proceeds(run_results[phases[wi].name], phases[wi].on_fail) /\ wi < Len(phases)
       THEN wpc' = "spawn" /\ wi' = wi + 1
       ELSE wpc' = "returned" /\ wi' = wi
    /\ UNCHANGED <<phases, phase_names, call, raised, cmds, disk, run_results>>
    /\ UNCHANGED notWf

WfNext ==
    \/ RegisterPhase
    \/ RegisterPhaseRaises
    \/ RunBegin
    \/ PhaseSpawn
    \/ PhaseRead
    \/ PhaseDecide


\* _read_loop_result on its own: every combination of files a loop session
\* directory can hold when the workflow reads it back.
SessionStates == {"running", "done", "exited", "aborted", "failed", "missing"}

RECURSIVE VerdictLists(_)
VerdictLists(n) ==
    IF n = 0 THEN {<<>>}
    ELSE VerdictLists(n - 1) \cup
         {Append(h, v) : h \in {x \in VerdictLists(n - 1) : Len(x) = n - 1}, v \in Verdicts}

DiskRecords ==
    { [session_id |-> id, state |-> st, history |-> h, exit_reason |-> r, result |-> t] :
        id \in {"", "0"}, st \in SessionStates, h \in VerdictLists(MaxIter),
        r \in {"", "r1"}, t \in {"", "out0"} }

ReadInit ==
    /\ fpc = "call"
    /\ arg \in DiskRecords
    /\ value = NoRun.ret

ReadLoopResult ==
    /\ fpc = "call"
    /\ value' = read_loop_result(arg)
    /\ fpc' = "done"
    /\ UNCHANGED arg
    /\ UNCHANGED notFn


\* ------------------------------------------------------------------------
\* One `scope spawn` from create_window to the end of its try block
\* (commands/spawn.py): window, record, contract delivery, and the resend of
\* the submit keystroke while the task file still holds the placeholder.

\* for _ in range(5)
ResendLimit == 5

DeliverIdle ==
    /\ dpc = "off"
    /\ skip_ready_check = FALSE
    /\ taskFile = "missing"
    /\ drec = "missing"
    /\ attempt = 0
    /\ submits = 0
    /\ observed = "none"

\* next_id has returned; nothing of the session is on disk yet.
DeliverInit ==
    /\ dpc = "create"
    /\ skip_ready_check \in BOOLEAN
    /\ taskFile = "missing"
    /\ drec = "missing"
    /\ attempt = 0
    /\ submits = 0
    /\ observed = "none"

\* _task_still_pending answering True whatever the file holds.
TaskAlwaysPending(file) == TRUE

\* _task_still_pending: the file is read; FileNotFoundError gives False.
task_still_pending(file) == file = "pending"

\* create_window (and install_tmux_hooks): done, or TmuxError and exit 1.
DeliverCreateWindow ==
    /\ dpc = "create"
    /\ dpc' \in {"save", "exit1"}
    /\ UNCHANGED <<skip_ready_check, taskFile, drec, attempt, submits, observed>>
    /\ UNCHANGED notDeliver

\* save_session(session) with task=PENDING_TASK and state=running, then the
\* contract file, save_loop_state and the wait for the ready file.
DeliverSaveSession ==
    /\ dpc = "save"
    /\ drec' = "running"
    /\ taskFile' = "pending"
    /\ dpc' = "scope_cmd"
    /\ UNCHANGED <<skip_ready_check, attempt, submits, observed>>
    /\ UNCHANGED notDeliver

\* send_keys(target, "/scope", ...): a TmuxError here is swallowed.
DeliverSendScope ==
    /\ dpc = "scope_cmd"
    /\ dpc' = "contract"
    /\ UNCHANGED <<skip_ready_check, taskFile, drec, attempt, submits, observed>>
    /\ UNCHANGED notDeliver

\* send_contract(target, contract): delivered, or TmuxError and exit 1.
DeliverSendContract ==
    /\ dpc = "contract"
    /\ dpc' \in {"pending_test", "exit1"}
    /\ UNCHANGED <<skip_ready_check, taskFile, drec, attempt, submits, observed>>
    /\ UNCHANGED notDeliver

\* if not skip_ready_check: if _task_still_pending(task_path): for ...
DeliverPendingTest ==
    /\ dpc = "pending_test"
    /\ dpc' = IF ~skip_ready_check /\ task_still_pending(taskFile)
              THEN "for" ELSE "returned"
    /\ UNCHANGED <<skip_ready_check, taskFile, drec, attempt, submits, observed>>
    /\ UNCHANGED notDeliver

\* The head of for _ in range(5), and the final wait after the loop.
DeliverForHead ==
    /\ dpc = "for"
    /\ dpc' = IF attempt < ResendLimit THEN "wait" ELSE "final_wait"
    /\ UNCHANGED <<skip_ready_check, taskFile, drec, attempt, submits, observed>>
    /\ UNCHANGED notDeliver

\* _wait_for_task_update(task_path, 1.0) returning: True (break) as soon as
\* a poll finds the file updated or gone, False when the last poll before
\* the deadline still found the placeholder.
DeliverWaitForTaskUpdate ==
    /\ dpc = "wait"
    /\ observed' = taskFile
    /\ dpc' = IF task_still_pending(taskFile) THEN "send" ELSE "final_wait"
    /\ UNCHANGED <<skip_ready_check, taskFile, drec, attempt, submits>>
    /\ UNCHANGED notDeliver

\* send_keys(target, "", submit=True): the keystroke goes out, or TmuxError
\* is swallowed; either way the round is over.
DeliverSendSubmit ==
    /\ dpc = "send"
    /\ submits' \in {submits, submits + 1}
    /\ attempt' = attempt + 1
    /\ dpc' = "for"
    /\ UNCHANGED <<skip_ready_check, taskFile, drec, observed>>
    /\ UNCHANGED notDeliver

\* The _wait_for_task_update after the loop; the try block ends.
DeliverFinalWait ==
    /\ dpc = "final_wait"
    /\ observed' = taskFile
    /\ dpc' = "returned"
    /\ UNCHANGED <<skip_ready_check, taskFile, drec, attempt, submits>>
    /\ UNCHANGED notDeliver

\* The agent's hook handler replaces the placeholder by the inferred task.
DeliverTaskInferred ==
    /\ taskFile = "pending"
    /\ taskFile' = "updated"
    /\ UNCHANGED <<dpc, skip_ready_check, drec, attempt, submits, observed>>
    /\ UNCHANGED notDeliver

\* The mux exit hook gives the record a terminal state when the pane ends.
DeliverHookTerminal ==
    /\ drec = "running"
    /\ drec' \in {"done", "aborted"}
    /\ UNCHANGED <<dpc, skip_ready_check, taskFile, attempt, submits, observed>>
    /\ UNCHANGED notDeliver

\* scope abort of the new session: delete_session removes its directory.
DeliverAbort ==
    /\ drec # "missing"
    /\ drec' = "missing"
    /\ taskFile' = "missing"
    /\ UNCHANGED <<dpc, skip_ready_check, attempt, submits, observed>>
    /\ UNCHANGED notDeliver

DeliverStep ==
    \/ DeliverCreateWindow
    \/ DeliverSaveSession
    \/ DeliverSendScope
    \/ DeliverSendContract
    \/ DeliverPendingTest
    \/ DeliverForHead
    \/ DeliverWaitForTaskUpdate
    \/ DeliverSendSubmit
    \/ DeliverFinalWait

DeliverEnv ==
    \/ DeliverTaskInferred
    \/ DeliverHookTerminal
    \/ DeliverAbort

DeliverNext == DeliverStep \/ DeliverEnv


\* ------------------------------------------------------------------------
\* The TUI session tree (tui/widgets/session_tree.py): _session_sort_key and
\* _build_tree over one snapshot of the store.  A session id is the sequence
\* of its tokens: numbers (as text), ".", "-", and the role of a loop child.

Dot == "."
Dash == "-"

\* next_id, child branch: f"{parent}.{n}".
ChildTokens(parent, n) == parent \o <<Dot, ToString(n)>>

\* iter_session_id: f"{loop_id}-{iteration}-{role}".
IterTokens(loop_id, it, role) == loop_id \o <<Dash, ToString(it), Dash, role>>

\* str.split(sep): the pieces between the separators.
RECURSIVE SplitTokens(_, _, _)
SplitTokens(toks, sep, piece) ==
    IF toks = <<>> THEN <<piece>>
    ELSE IF Head(toks) = sep
         THEN <<piece>> \o SplitTokens(Tail(toks), sep, <<>>)
         ELSE SplitTokens(Tail(toks), sep, Append(piece, Head(toks)))
Split(toks, sep) == SplitTokens(toks, sep, <<>>)

\* int(p): defined for a piece that is one number, ValueError otherwise.
IsNumber(tok) == \E n \in 0..MaxIndex : ToString(n) = tok
IntOf(tok) == CHOOSE n \in 0..MaxIndex : ToString(n) = tok
CanInt(piece) == Len(piece) = 1 /\ IsNumber(piece[1])

\* The elements of a key tuple: an int or a str.
IntEl(n) == [t |-> "int", n |-> n, s |-> ""]
StrEl(str) == [t |-> "str", n |-> 0, s |-> str]

\* A piece of the id as the text Python holds (roles and "" only occur).
TextOf(piece) == IF piece = <<>> THEN "" ELSE piece[1]

KeyError == [ok |-> FALSE, key |-> <<>>]
Key(k) == [ok |-> TRUE, key |-> k]

\* _session_sort_key: base ints, then (iteration, role) for a loop child
\* whose last dot segment holds a dash, or (-1, "") after all the ints of a
\* plain id.
session_sort_key(id) ==
    LET parts == Split(id, Dot)
        last == parts[Len(parts)]
        front == SubSeq(parts, 1, Len(parts) - 1)
    IN  IF \E k \in DOMAIN last : last[k] = Dash
        THEN LET segs == Split(last, Dash)
             IN  IF Len(segs) < 3 \/ ~CanInt(segs[1]) \/ ~CanInt(segs[2])
                    \/ \E k \in DOMAIN front : ~CanInt(front[k])
                 THEN KeyError
                 ELSE Key([k \in DOMAIN front |-> IntEl(IntOf(front[k][1]))]
                          \o <<IntEl(IntOf(segs[1][1])), IntEl(IntOf(segs[2][1])),
                               StrEl(TextOf(segs[3]))>>)
        ELSE IF \E k \in DOMAIN parts : ~CanInt(parts[k])
             THEN KeyError
             ELSE Key([k \in DOMAIN parts |-> IntEl(IntOf(parts[k][1]))]
                      \o <<IntEl(-1), StrEl("")>>)

\* Python's tuple comparison a < b: the first position where the elements
\* are not equal decides, and raises TypeError when one is an int and the
\* other a str; without such a position the shorter tuple is the smaller.
Differ(a, b) == {i \in 1..Len(a) : i <= Len(b) /\ a[i] # b[i]}
FirstDiff(a, b) == CHOOSE i \in Differ(a, b) : \A j \in Differ(a, b) : i <= j
Comparable(a, b) ==
    Differ(a, b) = {} \/ a[FirstDiff(a, b)].t = b[FirstDiff(a, b)].t

\* "" < "check" < "do", the only texts that occur in a key.
TextRank(str) == IF str = "" THEN 0 ELSE IF str = "check" THEN 1 ELSE 2

TupleLess(a, b) ==
    IF Differ(a, b) = {} THEN Len(a) < Len(b)
    ELSE LET i == FirstDiff(a, b)
         IN  IF a[i].t = "int" THEN a[i].n < b[i].n
             ELSE TextRank(a[i].s) < TextRank(b[i].s)

\* One snapshot of the store as the TUI loads it: the session records (id
\* and parent), the ids that have a loop_state.json, and the history of the
\* root's loop state.
ViewRoot == <<"0">>
NoParent == <<>>
SessionRec(id, parent) == [id |-> id, parent |-> parent]
Entry(it, doer, chk) == [iteration |-> it, doer_session |-> doer, checker_session |-> chk]

PlainKids == {ChildTokens(ViewRoot, 0), ChildTokens(ViewRoot, 1)}
IterKids == {IterTokens(ViewRoot, 0, "check"), IterTokens(ViewRoot, 1, "do")}
GrandKidsOf(kid) == {ChildTokens(kid, 0)}

\* The histories run_loop can have saved for the root: none yet, iteration 0
\* with an agent checker or with gates only, and a second iteration.
RootHistories ==
    { <<>>,
      <<Entry(0, ViewRoot, IterTokens(ViewRoot, 0, "check"))>>,
      <<Entry(0, ViewRoot, <<>>)>>,
      <<Entry(0, ViewRoot, IterTokens(ViewRoot, 0, "check")),
        Entry(1, IterTokens(ViewRoot, 1, "do"), <<>>)>> }

\* Sessions made by `scope spawn` have a loop state (spawn always saves
\* one); a root made in the TUI has none and runs no loop.
Snapshots ==
    { [sessions |-> {SessionRec(ViewRoot, NoParent)}
                      \cup {SessionRec(k, ViewRoot) : k \in kids}
                      \cup {SessionRec(ChildTokens(k, 0), k) : k \in parents},
       loops |-> (IF rootLoop THEN {ViewRoot} ELSE {}) \cup kids
                      \cup {ChildTokens(k, 0) : k \in parents},
       history |-> h] :
        rootLoop \in BOOLEAN,
        kids \in SUBSET (PlainKids \cup IterKids),
        parents \in SUBSET {ChildTokens(ViewRoot, 0), IterTokens(ViewRoot, 1, "do")},
        h \in RootHistories }

\* what a TUI root can look like: no loop children, no history
ValidSnapshot(v) ==
    /\ \A r \in v.sessions : r.parent # NoParent => \E q \in v.sessions : q.id = r.parent
    /\ ViewRoot \notin v.loops =>
          /\ v.history = <<>>
          /\ \A r \in v.sessions : r.id \notin IterKids

\* children[parent]: the group of one parent, and its sort by key.  list.sort
\* computes every key first (ValueError of int() included) and has to
\* compare every two keys that no third one separates; two keys that are
\* not comparable share their prefix with no key between them, so a group
\* holding such a pair makes the sort raise TypeError.
ChildrenOfView(v, parent) == {r \in v.sessions : r.parent = parent}
ParentsOfView(v) == {r.parent : r \in v.sessions}

GroupSortRaises(group) ==
    \/ \E r \in group : ~session_sort_key(r.id).ok
    \/ \E r, q \in group :
          ~Comparable(session_sort_key(r.id).key, session_sort_key(q.id).key)

SetToSeq(S) == CHOOSE f \in [1..Cardinality(S) -> S] : \A i, j \in 1..Cardinality(S) : i # j => f[i] # f[j]

SortedChildren(v, parent) ==
    SortSeq(SetToSeq(ChildrenOfView(v, parent)),
            LAMBDA r, q : TupleLess(session_sort_key(r.id).key, session_sort_key(q.id).key))

Row(id, depth, node_type) == [id |-> id, depth |-> depth, node_type |-> node_type]

Exists(v, id) == \E r \in v.sessions : r.id = id

\* The rows of one history entry after iteration 0: its doer, then its
\* checker session or, for a gates-only check, the loop session again.
EntryRows(v, session, e, depth) ==
    (IF Exists(v, e.doer_session)
     THEN <<Row(e.doer_session, depth + 1, "iteration")>> ELSE <<>>)
    \o (IF e.checker_session # <<>> /\ Exists(v, e.checker_session)
        THEN <<Row(e.checker_session, depth + 1, "iteration")>>
        ELSE IF e.checker_session = <<>>
        THEN <<Row(session, depth + 1, "iteration")>>
        ELSE <<>>)

RECURSIVE LaterEntryRows(_, _, _, _)
LaterEntryRows(v, session, hist, depth) ==
    IF hist = <<>> THEN <<>>
    ELSE (IF Head(hist).iteration = 0 THEN <<>>
          ELSE EntryRows(v, session, Head(hist), depth))
         \o LaterEntryRows(v, session, Tail(hist), depth)

\* The rows of a loop session: header, "Iter 0", the check of iteration 0,
\* the later iterations, and every child the history does not name.  The
\* children of those children are not visited.
RECURSIVE FallbackRows(_, _, _)
FallbackRows(kidsSeq, known, depth) ==
    IF kidsSeq = <<>> THEN <<>>
    ELSE (IF Head(kidsSeq).id \in known THEN <<>>
          ELSE <<Row(Head(kidsSeq).id, depth + 1, "iteration")>>)
         \o FallbackRows(Tail(kidsSeq), known, depth)

HistoryOf(v, id) == IF id = ViewRoot THEN v.history ELSE <<>>

LoopRows(v, session, depth) ==
    LET hist == HistoryOf(v, session)
        known == ({hist[k].doer_session : k \in DOMAIN hist}
                    \cup {hist[k].checker_session : k \in DOMAIN hist}) \ {<<>>}
        first == {k \in DOMAIN hist : hist[k].iteration = 0}
    IN  <<Row(session, depth, "loop"), Row(session, depth + 1, "iteration")>>
        \o (IF first = {} THEN <<>>
            ELSE LET e == hist[CHOOSE k \in first : TRUE]
                 IN  IF e.checker_session # <<>> /\ Exists(v, e.checker_session)
                     THEN <<Row(e.checker_session, depth + 1, "iteration")>>
                     ELSE IF e.checker_session = <<>>
                     THEN <<Row(session, depth + 1, "iteration")>>
                     ELSE <<>>)
        \o LaterEntryRows(v, session, hist, depth)
        \o FallbackRows(SortedChildren(v, session), known, depth)

\* traverse(parent, depth) with nothing collapsed.
RECURSIVE Traverse(_, _, _)
RECURSIVE TraverseList(_, _, _)
TraverseList(v, list, depth) ==
    IF list = <<>> THEN <<>>
    ELSE LET session == Head(list).id
         IN  (IF session \in v.loops
              THEN LoopRows(v, session, depth)
              ELSE <<Row(session, depth, "session")>> \o Traverse(v, session, depth + 1))
             \o TraverseList(v, Tail(list), depth)
Traverse(v, parent, depth) == TraverseList(v, SortedChildren(v, parent), depth)

NoTree == [raised |-> FALSE, rows |-> <<>>]

\* _build_tree(sessions, collapsed=set(), hide_done=False).
build_tree(v) ==
    IF \E parent \in ParentsOfView(v) : GroupSortRaises(ChildrenOfView(v, parent))
    THEN [raised |-> TRUE, rows |-> <<>>]
    ELSE [raised |-> FALSE, rows |-> Traverse(v, NoParent, 0)]

TreeInit ==
    /\ fpc = "call"
    /\ arg \in {v \in Snapshots : ValidSnapshot(v)}
    /\ value = NoTree

BuildTree ==
    /\ fpc = "call"
    /\ value' = build_tree(arg)
    /\ fpc' = "done"
    /\ UNCHANGED arg
    /\ UNCHANGED notFn


\* ------------------------------------------------------------------------
\* The termination evaluator (core/termination.py).

FnIdle ==
    /\ fpc = "off"
    /\ arg = <<>>
    /\ value = <<>>

\* A criterion is a command (by _is_command's prefixes) with the outcome its
\* execution has, or a descriptive text.
Criteria ==
    {[kind |-> "command", outcome |-> o] : o \in Outcomes}
        \cup {[kind |-> "descriptive", outcome |-> "none"]}

TerminationCheck(c, passed, detail) ==
    [criterion |-> c, passed |-> passed, detail |-> detail]

run_criterion(c) ==
    IF c.kind = "command"
    THEN CASE c.outcome = "exit0" -> TerminationCheck(c, TRUE, "")
           [] c.outcome = "nonzero" -> TerminationCheck(c, FALSE, "last line")
           [] c.outcome = "timeout" -> TerminationCheck(c, FALSE, "command timed out")
           [] OTHER -> TerminationCheck(c, FALSE, "execution error")
    ELSE TerminationCheck(c, FALSE, "descriptive criterion")

TerminationResult(checks, it, max, terminate, reason) ==
    [checks |-> checks, iteration |-> it, max_iterations |-> max,
     recommend_terminate |-> terminate, reason |-> reason]

EvaluateTerminationNoMax(criteria, it, max) ==
    LET checks == [k \in DOMAIN criteria |-> run_criterion(criteria[k])]
        all_passed == \A k \in DOMAIN checks : checks[k].passed
    IN  IF all_passed
        THEN TerminationResult(checks, it, max, TRUE, "all criteria passed")
        ELSE TerminationResult(checks, it, max, FALSE, "criteria not met")

evaluate_termination(criteria, it, max) ==
    LET checks == [k \in DOMAIN criteria |-> run_criterion(criteria[k])]
        all_passed == \A k \in DOMAIN checks : checks[k].passed
        at_max == it >= max
    IN  IF all_passed
        THEN TerminationResult(checks, it, max, TRUE, "all criteria passed")
        ELSE IF at_max
        THEN TerminationResult(checks, it, max, TRUE, "max iterations reached")
        ELSE TerminationResult(checks, it, max, FALSE, "criteria not met")

TermInit ==
    /\ fpc = "call"
    /\ arg \in [criteria : UNION {[1..n -> Criteria] : n \in 0..MaxCriteria},
                iteration : 0..(MaxIter + 1),
                max_iterations : 0..(MaxIter + 1)]
    /\ value = <<>>

EvaluateTermination ==
    /\ fpc = "call"
    /\ value' = evaluate_termination(arg.criteria, arg.iteration, arg.max_iterations)
    /\ fpc' = "done"
    /\ UNCHANGED arg
    /\ UNCHANGED notFn


\* ------------------------------------------------------------------------
\* save_session and load_session on whole Session values (core/state.py).
\* A Session has the fields spawn constructs it with (spawn.py:163-171) and
\* depends_on; a timestamp is [sec, micro, tz].

Timestamps == [sec : {1, 2}, micro : {0, 5}, tz : {"+00:00"}]

\* datetime.isoformat leaves the microseconds out when they are zero.
isoformat(dt) ==
    IF dt.micro = 0 THEN <<dt.sec, dt.tz>> ELSE <<dt.sec, dt.micro, dt.tz>>

fromisoformat(text) ==
    IF Len(text) = 2
    THEN [sec |-> text[1], micro |-> 0, tz |-> text[2]]
    ELSE [sec |-> text[1], micro |-> text[2], tz |-> text[3]]

SessionValues ==
    {v \in [id : {"0", "0.1"}, task : {"t"}, parent : {"", "0"},
            state : {"running"} \cup TERMINAL_STATES, tmux_session : {"w0", "w1"},
            created_at : Timestamps, alias : {NoAlias} \cup Aliases,
            depends_on : {<<>>, <<"0">>}] :
        v.parent = IF v.id = "0" THEN "" ELSE "0"}

\* The files save_session writes into .scope/sessions/{id}/.
save_session(session) ==
    [task |-> session.task, state |-> session.state, parent |-> session.parent,
     tmux |-> session.tmux_session, created_at |-> isoformat(session.created_at)]

\* The Session load_session builds from the files; the fields it does not
\* pass keep the defaults of the dataclass.
load_session(dir, id) ==
    [id |-> id, task |-> dir.task, parent |-> dir.parent,
     state |-> dir.state, tmux_session |-> dir.tmux,
     created_at |-> fromisoformat(dir.created_at),
     alias |-> NoAlias, depends_on |-> <<>>]

RoundTripInit ==
    /\ fpc = "call"
    /\ arg \in SessionValues
    /\ value = <<>>

\* save_session(session) followed by load_session(session.id).
SaveThenLoad ==
    /\ fpc = "call"
    /\ value' = load_session(save_session(arg), arg.id)
    /\ fpc' = "done"
    /\ UNCHANGED arg
    /\ UNCHANGED notFn


\* ------------------------------------------------------------------------
\* save_session writing the files of a new session one after the other with
\* Path.write_text (open for writing, which creates the file empty, then
\* write), while load_session or load_all reads the same directory.

WriteOrder == <<"task", "state", "parent", "tmux", "created_at">>
ReadOrder == <<"task", "parent", "state", "tmux", "created_at">>

\* The session being saved, as file contents.
SavedFiles ==
    [f \in {"task", "state", "parent", "tmux", "created_at"} |->
        CASE f = "task" -> "t"
          [] f = "state" -> "running"
          [] f = "parent" -> "0"
          [] f = "tmux" -> "w0"
          [] OTHER -> "2026-01-01T00:00:00+00:00"]

NoDir == [exists |-> FALSE, files |-> <<>>]
Got(kind, session) == [kind |-> kind, session |-> session]
NotLoaded == Got("nothing", <<>>)

IoIdle ==
    /\ sdir = NoDir
    /\ wpos = 0
    /\ wopen = FALSE
    /\ rpc = "off"
    /\ rpos = 0
    /\ loaded = <<>>
    /\ got = NotLoaded

IoInit ==
    /\ sdir = NoDir
    /\ wpos = 0
    /\ wopen = FALSE
    /\ rpc = "start"
    /\ rpos = 0
    /\ loaded = <<>>
    /\ got = NotLoaded

\* save_session: session_dir.mkdir(parents=True, exist_ok=True)
SaveMkdir ==
    /\ wpos = 0
    /\ sdir' = [sdir EXCEPT !.exists = TRUE]
    /\ wpos' = 1
    /\ UNCHANGED <<wopen, rpc, rpos, loaded, got>>
    /\ UNCHANGED notIo

\* write_text, first half: open(..., "w") creates the file, empty.
SaveOpen ==
    /\ wpos \in DOMAIN WriteOrder
    /\ ~wopen
    /\ sdir' = [sdir EXCEPT !.files = (WriteOrder[wpos] :> "") @@ @]
    /\ wopen' = TRUE
    /\ UNCHANGED <<wpos, rpc, rpos, loaded, got>>
    /\ UNCHANGED notIo

\* write_text, second half: the content is written and the file closed.
SaveWrite ==
    /\ wpos \in DOMAIN WriteOrder
    /\ wopen
    /\ sdir' = [sdir EXCEPT !.files =
                   (WriteOrder[wpos] :> SavedFiles[WriteOrder[wpos]]) @@ @]
    /\ wopen' = FALSE
    /\ wpos' = wpos + 1
    /\ UNCHANGED <<rpc, rpos, loaded, got>>
    /\ UNCHANGED notIo

\* load_session (called directly, or by load_all for a directory iterdir
\* listed): `if not session_dir.exists(): return None`.
LoadStart ==
    /\ rpc = "start"
    /\ IF sdir.exists
       THEN rpc' = "read" /\ rpos' = 1 /\ got' = got
       ELSE rpc' = "returned" /\ rpos' = 0 /\ got' = Got("None", <<>>)
    /\ UNCHANGED <<sdir, wpos, wopen, loaded>>
    /\ UNCHANGED notIo

\* One (session_dir / name).read_text() of the Session(...) call.
LoadRead ==
    /\ rpc = "read"
    /\ ReadOrder[rpos] \in DOMAIN sdir.files
    /\ loaded' = (ReadOrder[rpos] :> sdir.files[ReadOrder[rpos]]) @@ loaded
    /\ IF rpos = Len(ReadOrder)
       THEN rpc' = "build" /\ rpos' = rpos
       ELSE rpc' = "read" /\ rpos' = rpos + 1
    /\ UNCHANGED <<sdir, wpos, wopen, got>>
    /\ UNCHANGED notIo

\* read_text of a file that does not exist raises FileNotFoundError, which
\* neither load_session nor load_all catches.
LoadReadRaises ==
    /\ rpc = "read"
    /\ ReadOrder[rpos] \notin DOMAIN sdir.files
    /\ rpc' = "raised"
    /\ got' = Got("FileNotFoundError", <<>>)
    /\ UNCHANGED <<sdir, wpos, wopen, rpos, loaded>>
    /\ UNCHANGED notIo

\* datetime.fromisoformat and the Session constructor.
LoadBuild ==
    /\ rpc = "build"
    /\ IF loaded["created_at"] = ""
       THEN rpc' = "raised" /\ got' = Got("ValueError", <<>>)
       ELSE rpc' = "returned" /\ got' = Got("Session", loaded)
    /\ UNCHANGED <<sdir, wpos, wopen, rpos, loaded>>
    /\ UNCHANGED notIo

IoNext ==
    \/ SaveMkdir
    \/ SaveOpen
    \/ SaveWrite
    \/ LoadStart
    \/ LoadRead
    \/ LoadReadRaises
    \/ LoadBuild


\* ------------------------------------------------------------------------
\* sugar_to_rubric and parse_rubric on text (core/loop.py).  A text is the
\* sequence of its characters; the two headings sugar_to_rubric writes are
\* single symbols, since no checker considered here contains "#".

Whitespace == {" ", "\n"}
Backtick == "backtick"
GatesHeading == "## Gates"
CriteriaHeading == "## Criteria"
AgentPrefix == <<"a", "g", "e", "n", "t", ":">>

\* str.strip()
RECURSIVE LStripText(_)
LStripText(t) ==
    IF t # <<>> /\ Head(t) \in Whitespace THEN LStripText(Tail(t)) ELSE t

RECURSIVE RStripText(_)
RStripText(t) ==
    IF t # <<>> /\ t[Len(t)] \in Whitespace
    THEN RStripText(SubSeq(t, 1, Len(t) - 1)) ELSE t

StripText(t) == RStripText(LStripText(t))

StartsWith(t, prefix) ==
    Len(t) >= Len(prefix) /\ SubSeq(t, 1, Len(prefix)) = prefix

\* detect_checker_type, for checkers that are neither the path of an
\* existing file nor a name ending in .md or .markdown.
detect_checker_type(checker_text) ==
    IF StartsWith(checker_text, AgentPrefix) THEN "agent" ELSE "command"

sugar_to_rubric(checker_text) ==
    IF detect_checker_type(checker_text) = "agent"
    THEN LET prompt == StripText(SubSeq(checker_text, Len(AgentPrefix) + 1,
                                        Len(checker_text)))
         IN  <<CriteriaHeading, "\n", "-", " ">> \o prompt \o <<"\n">>
    ELSE <<GatesHeading, "\n", "-", " ", Backtick>> \o checker_text \o <<Backtick, "\n">>

\* str.split("\n")
RECURSIVE SplitLines(_, _)
SplitLines(t, line) ==
    IF t = <<>> THEN <<line>>
    ELSE IF Head(t) = "\n" THEN <<line>> \o SplitLines(Tail(t), <<>>)
    ELSE SplitLines(Tail(t), Append(line, Head(t)))

\* The index of the first character of line at or after i that is not
\* whitespace, Len(line) + 1 when there is none.
RECURSIVE SkipSpace(_, _)
SkipSpace(line, i) ==
    IF i <= Len(line) /\ line[i] \in Whitespace THEN SkipSpace(line, i + 1) ELSE i

\* re.match of "-", whitespace, a backtick, (.+?), a backtick: the group as a one-element
\* list, the empty list when the line does not match.
GateItem(line) ==
    LET open == SkipSpace(line, 2)
        closes == {j \in (open + 2)..Len(line) : line[j] = Backtick}
    IN  IF Len(line) >= 2 /\ line[1] = "-" /\ open > 2 /\ open <= Len(line)
           /\ line[open] = Backtick /\ closes # {}
        THEN <<SubSeq(line, open + 1,
                      (CHOOSE j \in closes : \A k \in closes : j <= k) - 1)>>
        ELSE <<>>

\* re.match of "-", whitespace, (.+) up to the end of the line, likewise.
CriteriaItem(line) ==
    LET start == SkipSpace(line, 2)
    IN  IF Len(line) >= 2 /\ line[1] = "-" /\ start > 2 /\ start <= Len(line)
        THEN <<SubSeq(line, start, Len(line))>>
        ELSE <<>>

\* parse_rubric: the lines after each heading go to that section's list.
RECURSIVE ParseLines(_, _, _)
ParseLines(lines, heading, r) ==
    IF lines = <<>> THEN r
    ELSE LET line == StripText(Head(lines))
         IN  IF line = <<GatesHeading>> THEN ParseLines(Tail(lines), "gates", r)
             ELSE IF line = <<CriteriaHeading>>
             THEN ParseLines(Tail(lines), "criteria", r)
             ELSE IF heading = "gates"
             THEN ParseLines(Tail(lines), heading,
                             [r EXCEPT !.gates = @ \o GateItem(line)])
             ELSE IF heading = "criteria"
             THEN ParseLines(Tail(lines), heading,
                             [r EXCEPT !.criteria = @ \o CriteriaItem(line)])
             ELSE ParseLines(Tail(lines), heading, r)

parse_rubric_text(text) ==
    ParseLines(SplitLines(text, <<>>), "none",
               [gates |-> <<>>, criteria |-> <<>>, nice_to_have |-> <<>>])

RECURSIVE Texts(_, _)
Texts(chars, n) ==
    IF n = 0 THEN {<<>>}
    ELSE LET shorter == Texts(chars, n - 1)
         IN  shorter \cup {Append(t, c) : t \in shorter, c \in chars}

\* Shell commands and agent prompts: not empty, no surrounding whitespace;
\* a command is one line and may hold backticks, a prompt may have lines.
SugarCommands ==
    {t \in Texts({"p", " ", Backtick}, MaxText) : t # <<>> /\ StripText(t) = t}

SugarPrompts ==
    {t \in Texts({"p", " ", "\n"}, MaxText) : t # <<>> /\ StripText(t) = t}

SugarInit ==
    /\ fpc = "call"
    /\ arg \in [kind : {"command"}, text : SugarCommands]
               \cup [kind : {"agent"}, text : SugarPrompts]
    /\ value = <<>>

\* parse_rubric(sugar_to_rubric(checker))
SugarThenParse ==
    /\ fpc = "call"
    /\ LET checker_text == IF arg.kind = "agent"
                           THEN AgentPrefix \o <<" ">> \o arg.text
                           ELSE arg.text
       IN  value' = parse_rubric_text(sugar_to_rubric(checker_text))
    /\ fpc' = "done"
    /\ UNCHANGED arg
    /\ UNCHANGED notFn

LoopStep ==
    \/ ForHead
    \/ DoerWaitLoad
    \/ DoerWaitArm
    \/ DoerWatchEvent
    \/ DoerLoad
    \/ DoerExited
    \/ RunCommandChecker
    \/ SpawnChecker
    \/ CheckerWaitLoad
    \/ CheckerWaitArm
    \/ CheckerWatchEvent
    \/ CheckerRead
    \/ RecordVerdict
    \/ Decide
    \/ SpawnRetry
    \/ SpawnRetryFails

LoopEnv == LoopHookTerminal \/ LoopExitState \/ LoopExitReason \/ LoopAbort

LInit == StoreInit /\ LoopInit /\ CheckIdle /\ IdIdle /\ WfIdle /\ FnIdle /\ IoIdle
    /\ DeliverIdle

LoopNext == LoopStep \/ LoopEnv

LoopSpec == LInit /\ [][LoopNext]_vars

\* The loop engine keeps running: whenever it can take a step (a pending
\* change of the watched file being delivered included) it eventually does.
\* The hook, `scope exit` and `scope abort` may or may not happen.
LoopLiveSpec == LInit /\ [][LoopNext]_vars /\ WF_vars(LoopStep)


\* ---------------------------------------------------------- specifications
ProcStep(p) ==
    \/ SpawnBegin(p)
    \/ AliasCheckPasses(p)
    \/ AliasCheckFails(p)
    \/ TuiBegin(p)
    \/ NextIdRead(p)
    \/ NextIdWrite(p)
    \/ NextIdChild(p)
    \/ CreateWindow(p)
    \/ CreateWindowFails(p)
    \/ SpawnSave(p)
    \/ TuiSave(p)
    \/ TuiSplit(p)

EnvStep == Abort \/ ExitCmd \/ HookTerminal

Init == StoreInit /\ LoopIdle /\ CheckIdle /\ IdIdle /\ WfIdle /\ FnIdle /\ IoIdle
    /\ DeliverIdle

Next == (\E p \in Procs : ProcStep(p)) \/ EnvStep

Spec == Init /\ [][Next]_vars

\* One invocation at a time: the commands run strictly one after another.
SeqNext == ProcStep(1) \/ EnvStep

SeqSpec == Init /\ [][SeqNext]_vars

\* The checker phase of one iteration on its own.
CInit == StoreInit /\ LoopIdle /\ CheckInit /\ IdIdle /\ WfIdle /\ FnIdle /\ IoIdle
    /\ DeliverIdle

CheckSpec == CInit /\ [][CheckNext]_vars

\* parse_verdict applied to every bounded response.
PInit == StoreInit /\ LoopIdle /\ ParseInit /\ IdIdle /\ WfIdle /\ FnIdle /\ IoIdle
    /\ DeliverIdle

ParseSpec == PInit /\ [][ParseVerdict]_vars

\* Session names only.
NInit == StoreInit /\ LoopIdle /\ CheckIdle /\ IdInit /\ WfIdle /\ FnIdle /\ IoIdle
    /\ DeliverIdle
IdSpec == NInit /\ [][IdNext]_vars

\* One workflow: registration of phases, then Workflow.run.
WInit == StoreInit /\ LoopIdle /\ CheckIdle /\ IdIdle /\ WfInit /\ FnIdle /\ IoIdle
    /\ DeliverIdle
WorkflowSpec == WInit /\ [][WfNext]_vars

\* evaluate_termination applied to every bounded input.
TInit == StoreInit /\ LoopIdle /\ CheckIdle /\ IdIdle /\ WfIdle /\ TermInit /\ IoIdle
    /\ DeliverIdle
TermSpec == TInit /\ [][EvaluateTermination]_vars

\* save_session then load_session on every bounded Session value.
RInit == StoreInit /\ LoopIdle /\ CheckIdle /\ IdIdle /\ WfIdle /\ RoundTripInit /\ IoIdle
    /\ DeliverIdle
RoundTripSpec == RInit /\ [][SaveThenLoad]_vars

\* parse_rubric(sugar_to_rubric(checker)) on every bounded checker.
GInit == StoreInit /\ LoopIdle /\ CheckIdle /\ IdIdle /\ WfIdle /\ SugarInit /\ IoIdle
    /\ DeliverIdle
SugarSpec == GInit /\ [][SugarThenParse]_vars

DInit ==
    /\ StoreInit /\ LoopIdle /\ CheckIdle /\ IdIdle /\ WfIdle /\ IoIdle
    /\ DeliverIdle
    /\ ReadInit
ReadSpec == DInit /\ [][ReadLoopResult]_vars

VInit ==
    /\ StoreInit /\ LoopIdle /\ CheckIdle /\ IdIdle /\ WfIdle /\ FnIdle /\ IoIdle
    /\ DeliverInit
DeliverSpec == VInit /\ [][DeliverNext]_vars

BInit ==
    /\ StoreInit /\ LoopIdle /\ CheckIdle /\ IdIdle /\ WfIdle /\ IoIdle
    /\ DeliverIdle
    /\ TreeInit
TreeSpec == BInit /\ [][BuildTree]_vars

\* One save_session and one concurrent load of the same session.
SInit == StoreInit /\ LoopIdle /\ CheckIdle /\ IdIdle /\ WfIdle /\ FnIdle /\ IoInit
    /\ DeliverIdle
SaveLoadSpec == SInit /\ [][IoNext]_vars

\* ------------------------------------------------------------------ claims

\* A process holds an id that next_id returned and has not yet saved its record.
Allocated(p) == pc[p] \in {"create_window", "save", "tui_save"}

\* C1: the ids returned to concurrent next_id callers with the same parent
\* argument are pairwise distinct.
C1_ConcurrentIdsDistinct ==
    \A p \in Procs, q \in Procs :
        (p # q /\ Allocated(p) /\ Allocated(q) /\ parentArg[p] = parentArg[q])
            => sid[p] # sid[q]

\* C2: over any sequence of spawn and abort operations next_id never returns
\* an id that a session was already saved under.
C2_NoIdReused ==
    \A p \in Procs : Allocated(p) => sid[p] \notin given

\* C3: on every path that creates a session, a record in state running is only
\* ever visible in the store once its pane has been created.
C3_RunningHasPane ==
    \A id \in DOMAIN sessions : sessions[id].state = "running" => id \in panes

\* C4: once the state file of a session holds a terminal value, no step
\* changes it to a different value.
C4_TerminalStateKept ==
    [][\A id \in DOMAIN sessions :
          (sessions[id].state \in TERMINAL_STATES /\ id \in DOMAIN sessions')
              => sessions'[id].state = sessions[id].state]_vars

Last(h) == h[Len(h)]

C6_VerdictFromLastCheck ==
    (lpc = "returned" /\ max_iterations >= 1) =>
        /\ Len(ret.history) >= 1 =>
            /\ Last(ret.history).verdict = "accept" => ret.verdict = "accept"
            /\ Last(ret.history).verdict = "terminate" => ret.verdict = "terminate"
            /\ (Last(ret.history).verdict = "retry"
                    /\ Last(ret.history).iteration = max_iterations - 1)
                => (ret.verdict = "max_iterations"
                        /\ Len(ret.history) = max_iterations)
        /\ ret.verdict = "accept" =>
            (Len(ret.history) >= 1 /\ Last(ret.history).verdict = "accept")
        /\ ret.verdict = "max_iterations" =>
            /\ Len(ret.history) = max_iterations
            /\ Last(ret.history).verdict = "retry"

C6_Witness ==
    /\ lpc = "returned"
    /\ max_iterations = 2
    /\ ret.verdict = "max_iterations"
    /\ Len(ret.history) = 2
    /\ Last(ret.history).verdict = "retry"

\* C7: every persist of the loop state extends the persisted history by
\* exactly one entry, keeps the earlier entries, and leaves a history whose
\* entry at position i has iteration i.
C7_HistoryAppendOnly ==
    [][loopState' # loopState =>
          /\ Len(loopState'.history) = Len(loopState.history) + 1
          /\ SubSeq(loopState'.history, 1, Len(loopState.history)) = loopState.history
          /\ \A i \in 1..Len(loopState'.history) :
                loopState'.history[i].iteration = i - 1]_vars

C7_Witness ==
    /\ Len(loopState.history) = 2
    /\ loopState.history[2].iteration = 1

\* C8: in the loop history, in memory and as persisted, every entry other
\* than the last has verdict retry.
C8_OnlyLastNonRetry ==
    /\ \A i \in 1..(Len(history) - 1) : history[i].verdict = "retry"
    /\ \A i \in 1..(Len(loopState.history) - 1) : loopState.history[i].verdict = "retry"

C8_Witness ==
    /\ Len(loopState.history) = 2
    /\ loopState.history[2].verdict \in {"accept", "terminate"}

\* C9 as stated: for every LoopResult returned, the length of its history
\* equals LoopResult.iterations, whichever way the loop ended.
C9_HistoryLenIsIterations ==
    lpc = "returned" => Len(ret.history) = ret.iterations

\* C9 as amended: the history length equals LoopResult.iterations when the
\* loop returns after a checker verdict or after the for loop; when it returns
\* because the current doer is aborted, failed or exited, iterations also
\* counts that unchecked iteration and the history is one entry shorter.
C9_HistoryLenByReturn ==
    lpc = "returned" =>
        /\ ret.via \in {"checker", "safety_net"} => Len(ret.history) = ret.iterations
        /\ ret.via \in {"doer_failed", "doer_exited"} =>
            Len(ret.history) = ret.iterations - 1

C9_Witness ==
    /\ lpc = "returned"
    /\ ret.via = "doer_failed"
    /\ ret.iterations = 2
    /\ Len(ret.history) = 1

\* C10: when the loaded state of the current doer is aborted or failed,
\* run_loop returns terminate in that step, without running the checker,
\* appending or persisting history, or spawning a session; nothing of that
\* happens after the return either.
C10_DoerFailureTerminates ==
    [][/\ (/\ lpc = "d_check"
           /\ lpc' # lpc
           /\ current_doer_id \in DOMAIN lsess
           /\ lsess[current_doer_id].state \in {"aborted", "failed"})
          => /\ lpc' = "returned"
             /\ ret'.verdict = "terminate"
             /\ ret'.history = history
             /\ UNCHANGED <<history, loopState, checkerRuns, retrySpawns, lsess>>
       /\ lpc = "returned"
          => /\ lpc' = "returned"
             /\ UNCHANGED <<ret, history, loopState, checkerRuns, retrySpawns>>
             /\ DOMAIN lsess' \subseteq DOMAIN lsess]_vars

C10_Witness ==
    /\ lpc = "returned"
    /\ ret.via = "doer_failed"
    /\ ret.verdict = "terminate"
    /\ current_doer_id = DoerKey(1)
    /\ DoerKey(1) \in DOMAIN lsess
    /\ lsess[DoerKey(1)].state = "failed"

\* C11: whenever run_loop returns verdict exit because its current doer ran
\* scope exit <reason>, LoopResult.exit_reason is that reason, however the
\* two writes of the exit command interleave with the engine's reads.
C11_ExitReasonReturned ==
    (lpc = "returned" /\ ret.verdict = "exit") => ret.exit_reason \in Reasons


\* The ids the loop can have given to its children up to iteration it.
ExpectedLoopIds(it) ==
    {session_id}
        \cup {session_id \o "-" \o ToString(k) \o "-do" : k \in 1..it}
        \cup {session_id \o "-" \o ToString(k) \o "-check" : k \in 0..it}

\* The ids iter_session_id builds for one loop differ whenever the iteration
\* or the role differs.
IterIdsDistinct ==
    \A L \in LoopIds, i \in 0..MaxIndex, j \in 0..MaxIndex, r \in Roles, q \in Roles :
        iter_session_id(L, i, r) = iter_session_id(L, j, q) => (i = j /\ r = q)

\* No id iter_session_id builds for loop L is a plain child id L.n.
IterIdsNotPlain ==
    \A L \in LoopIds, i \in 0..MaxIndex, n \in 0..MaxIndex, r \in Roles :
        iter_session_id(L, i, r) # PlainChildId(L, n)

RubricReturned == cpc \in {"entry", "done"} /\ rubric_path # ""

AnyGateFailed == \E i \in 1..Len(gate_results) : gate_results[i].verdict # "pass"

\* C13: for a rubric with criteria whose agent answered, the verdict is
\* terminate when the agent says terminate (even with failed gates), else
\* retry when any gate failed, else the agent's verdict; and accept is
\* returned only when every gate passed and the agent said accept.
C13_CompositePrecedence ==
    (RubricReturned /\ has_criteria(rubric.parsed)) =>
        /\ seen.agent.verdict # "none" =>
            out.verdict = IF seen.agent.verdict = "terminate" THEN "terminate"
                          ELSE IF AnyGateFailed THEN "retry"
                          ELSE seen.agent.verdict
        /\ out.verdict = "accept" => (~AnyGateFailed /\ seen.agent.verdict = "accept")

C13_Witness ==
    /\ cpc = "done"
    /\ rubric_path # ""
    /\ has_criteria(rubric.parsed)
    /\ AnyGateFailed
    /\ seen.agent.verdict = "terminate"
    /\ out.verdict = "terminate"

\* C14: for a rubric without criteria and nice-to-have items the verdict is
\* accept exactly when every gate command exited 0 (so with no gate at all),
\* and retry otherwise.
C14_GatesOnlyVerdict ==
    (RubricReturned /\ ~has_criteria(rubric.parsed)) =>
        /\ Len(gate_results) = Len(rubric.parsed.gates)
        /\ out.verdict = IF \A i \in 1..Len(gate_results) : gate_results[i].output = "stdout"
                         THEN "accept" ELSE "retry"

C14_Witness ==
    /\ cpc = "done"
    /\ rubric_path # ""
    /\ ~has_criteria(rubric.parsed)
    /\ Len(gate_results) = 2
    /\ gate_results[1].output = "stdout"
    /\ gate_results[2].output = "output"
    /\ out.verdict = "retry"

\* C15: when a checker shell command could not be executed (OSError), be it
\* the bare command checker or a gate of a rubric, the checker verdict is
\* terminate.
C15_OSFailureTerminates ==
    (/\ cpc \in {"entry", "done"}
     /\ \/ out.feedback.kind = "oserror"
        \/ \E i \in 1..Len(gate_results) : gate_results[i].output = "oserror")
        => out.verdict = "terminate"

\* C16: when the checker session was found aborted, failed or exited, or
\* left no output, run_checker returns (it does not raise) and its verdict is
\* retry with a diagnostic feedback.
C16_FailedCheckerRetries ==
    (/\ cpc \in {"entry", "done"}
     /\ seen.state # "none"
     /\ seen.state \in {"aborted", "failed", "exited"} \/ seen.response = <<>>)
        => /\ out.verdict = "retry"
           /\ out.feedback.kind \in {"ended_with_state", "no_output"}

C16_Witness ==
    /\ cpc = "done"
    /\ seen.state = "exited"
    /\ seen.response = <<{"accept"}, {"ok", "TERMINATE"}>>
    /\ out.verdict = "retry"

VerdictTokens == {"TERMINATE", "ACCEPT", "RETRY"}

\* The lines of a response that contain a verdict token, in any letter case.
TokenLines(r) == {i \in 1..Len(r) : LineUpper(r[i]) \cap VerdictTokens # {}}

\* The verdict of one line: TERMINATE over ACCEPT over RETRY.
LineVerdict(line) ==
    IF "TERMINATE" \in LineUpper(line) THEN "terminate"
    ELSE IF "ACCEPT" \in LineUpper(line) THEN "accept"
    ELSE "retry"

\* C17: parse_verdict returns the verdict of the last line that contains a
\* verdict token (TERMINATE over ACCEPT over RETRY on that line), retry when
\* no line contains one, and always the whole response as feedback.
C17_ParseVerdictLastLine ==
    cpc = "parsed" =>
        /\ seen.agent.verdict =
             IF TokenLines(seen.response) = {} THEN "retry"
             ELSE LineVerdict(seen.response[Max(TokenLines(seen.response))])
        /\ seen.agent.feedback = seen.response

C17_Witness ==
    /\ cpc = "parsed"
    /\ seen.response = <<{"TERMINATE"}, {"accept", "RETRY"}>>
    /\ seen.agent.verdict = "accept"

\* C18: the rubric_hash in the history entry of an iteration is the hash of
\* the rubric content run_checker loaded and evaluated in that iteration,
\* also when the file is edited while the iteration runs.
C18_HashOfEvaluatedRubric ==
    (cpc = "done" /\ rubric_path # "") => entry.rubric_hash = rubric_hash(rubric.content)


\* C20: after any sequence of spawn and abort operations, every session
\* directory with a non-empty parent has its parent's directory.
C20_ParentDirExists ==
    (\A p \in Procs : pc[p] = "idle") =>
        \A id \in DOMAIN sessions :
            sessions[id].parent # Root => sessions[id].parent \in DOMAIN sessions

\* C19: however concurrent spawns asking for the same alias interleave, at
\* most one live session holds the alias.
C19_AliasUnique ==
    \A a \in Aliases :
        Cardinality({id \in DOMAIN sessions :
                        sessions[id].alias = a /\ sessions[id].state = "running"}) <= 1

\* ------------------------------------------------------------------------
\* C21: every session id ever created is a dot-separated tree segment of
\* integers, optionally followed by exactly one iteration suffix
\* -<iter>-<role>; a suffix never nests and is never followed by a further
\* tree segment, also when agents inside loop children spawn sub-sessions.
RECURSIVE TreeIds(_)
TreeIds(depth) ==
    IF depth = 1 THEN {ToString(n) : n \in 0..MaxNames}
    ELSE LET up == TreeIds(depth - 1)
         IN  up \cup {PlainChildId(t, n) : t \in up, n \in 0..MaxNames}

WellFormedIds ==
    LET tree == TreeIds(MaxNames)
    IN  tree \cup {iter_session_id(t, it, role) :
                      t \in tree, it \in 0..MaxIter, role \in Roles}

C21_IdsWellFormed == \A id \in DOMAIN names : id \in WellFormedIds

\* ------------------------------------------------------------------------
\* C22: the phases are spawned in registration order; phase k+1 is spawned
\* only if phase k's verdict is accept or its on_fail is continue, and when
\* Workflow.run has returned it was spawned exactly in that case; the
\* returned results hold exactly the phases that were spawned.
PhaseVerdict(k) == run_results[phases[k].name].loop_result.verdict

MayProceed(k) == PhaseVerdict(k) = "accept" \/ phases[k].on_fail = "continue"

C22_WorkflowProgression ==
    /\ \A k \in 1..Len(cmds) : k <= Len(phases) /\ cmds[k] = phases[k].name
    /\ \A k \in 1..(Len(phases) - 1) :
          /\ Len(cmds) >= k + 1 => MayProceed(k)
          /\ (wpc = "returned" /\ Len(cmds) >= k) =>
                (Len(cmds) >= k + 1 <=> MayProceed(k))
    /\ wpc = "returned" =>
          DOMAIN run_results = {phases[k].name : k \in 1..Len(cmds)}

\* Three phases: the first fails with on_fail continue, the second fails
\* with on_fail stop, the third is never spawned.
C22_Witness ==
    /\ wpc = "returned"
    /\ Len(phases) = 3
    /\ Len(cmds) = 2
    /\ phases[1].on_fail = "continue" /\ PhaseVerdict(1) = "max_iterations"
    /\ phases[2].on_fail = "stop" /\ PhaseVerdict(2) = "terminate"

\* C23: when the loop of a phase ends with verdict exit, no later phase is
\* spawned, whatever the phase's on_fail, and the phase result carries the
\* exit reason.
C23_ExitHaltsWorkflow ==
    /\ (wpc = "spawn" /\ wi > 1) => disk.ret.verdict # "exit"
    /\ (wpc \in {"decide", "returned"} /\ wi >= 1 /\ disk.ret.verdict = "exit") =>
          /\ run_results[phases[wi].name].loop_result.verdict = "exit"
          /\ run_results[phases[wi].name].loop_result.exit_reason = disk.ret.exit_reason

\* C24: a call of Workflow.phase with a name already registered, or with a
\* pipe_from naming a phase not registered before, raises ValueError and
\* leaves the phase list unchanged; any other call appends the phase.  So
\* names stay unique and pipe_from points backward only.
BadRegistration(c) ==
    \/ c.name \in phase_names
    \/ \E k \in DOMAIN c.pipe_from : c.pipe_from[k] \notin phase_names

RegistrationStep ==
    (wpc = "build" /\ wpc' = "build" /\ <<call, raised, phases>>' # <<call, raised, phases>>) =>
        IF BadRegistration(call')
        THEN raised' /\ phases' = phases /\ phase_names' = phase_names
        ELSE ~raised' /\ phases' = Append(phases, call')

PhasesWellFormed ==
    /\ \A j, k \in DOMAIN phases : phases[j].name = phases[k].name => j = k
    /\ \A k \in DOMAIN phases : \A n \in DOMAIN phases[k].pipe_from :
          \E j \in 1..(k - 1) : phases[j].name = phases[k].pipe_from[n]

C24_Registration == []PhasesWellFormed /\ [][RegistrationStep]_vars

\* A duplicate name was rejected after two phases, one piping from the other.
C24_Witness ==
    /\ raised
    /\ Len(phases) = 2
    /\ phases[2].pipe_from = <<phases[1].name>>
    /\ call.name = phases[1].name

\* ------------------------------------------------------------------------
\* C25: evaluate_termination recommends terminate if and only if all
\* criteria pass or iteration >= max_iterations, and iterate otherwise.
CriterionPasses(c) == c.kind = "command" /\ c.outcome = "exit0"

C25_TerminateIff ==
    fpc = "done" =>
        (value.recommend_terminate <=>
            \/ \A k \in DOMAIN arg.criteria : CriterionPasses(arg.criteria[k])
            \/ arg.iteration >= arg.max_iterations)

\* A failing criterion at the last allowed iteration: terminate by budget.
C25_Witness ==
    /\ fpc = "done"
    /\ Len(arg.criteria) = 2
    /\ CriterionPasses(arg.criteria[1]) /\ ~CriterionPasses(arg.criteria[2])
    /\ arg.iteration = arg.max_iterations
    /\ value.recommend_terminate
    /\ value.reason = "max iterations reached"

\* ------------------------------------------------------------------------
\* C26: abort <id> removes exactly the target's directory and does not
\* cascade: the step that deletes a session deletes one session, and every
\* other session, the target's descendants included, is left as it was.
AbortStep ==
    DOMAIN sessions' # DOMAIN sessions /\ DOMAIN sessions' \subseteq DOMAIN sessions

C26_AbortRemovesOnlyTarget ==
    [][ AbortStep =>
          \E id \in DOMAIN sessions :
              /\ DOMAIN sessions' = DOMAIN sessions \ {id}
              /\ \A o \in DOMAIN sessions' : sessions'[o] = sessions[o] ]_vars

\* A child whose parent was aborted is still there, running.
C26_Witness ==
    \E id \in DOMAIN sessions :
        /\ sessions[id].parent # Root
        /\ sessions[id].parent \in given
        /\ sessions[id].parent \notin DOMAIN sessions
        /\ sessions[id].state = "running"

\* ------------------------------------------------------------------------
\* C27: for every session value, saving it and then loading it by id yields
\* a session equal to the saved one in every field (id, task, parent, state,
\* tmux_session, created_at, alias, depends_on).
C27_RoundTrip == fpc = "done" => value = arg

\* ------------------------------------------------------------------------
\* C28: a load_session or load_all that runs concurrently with save_session
\* of the same session never raises and never returns a partially written
\* record: it returns None or the whole saved session.
C28_ReadersTolerateWrites ==
    /\ rpc # "raised"
    /\ got.kind = "Session" => got.session = SavedFiles

\* ------------------------------------------------------------------------
\* C29: wait_for_sessions does not wait forever for a session that is, and
\* stays, in a terminal state: whenever the state was written relative to
\* the initial load_session and to the start of the watch, the wait
\* eventually returns.
DoerWaiting == lpc \in {"d_load", "d_arm", "d_watch"}

C29_WaitReturns ==
    DoerWaiting ~> (~DoerWaiting \/ ~SeenTerminal(lsess, current_doer_id))

\* ------------------------------------------------------------------------
\* C30: for every bare shell-command checker cmd, parse_rubric of
\* sugar_to_rubric(cmd) has gates == [cmd] and no criteria, and for every
\* checker "agent: X" it has criteria == [X] and no gates.
C30_SugarRoundTrip ==
    fpc = "done" =>
        IF arg.kind = "command"
        THEN value.gates = <<arg.text>> /\ value.criteria = <<>>
        ELSE value.criteria = <<arg.text>> /\ value.gates = <<>>


\* C31: _read_loop_result takes the verdict from the session state first
\* (exited gives exit, else aborted or failed gives terminate), and only then
\* from the last history verdict (accept, terminate, retry giving
\* max_iterations), an empty history giving max_iterations.
LastVerdict(h) == h[Len(h)]
C31_Precedence ==
    (fpc = "done" /\ arg.session_id # "") =>
        value.verdict =
            IF arg.state = "exited" THEN "exit"
            ELSE IF arg.state \in {"aborted", "failed"} THEN "terminate"
            ELSE IF arg.history = <<>> THEN "max_iterations"
            ELSE IF LastVerdict(arg.history) = "accept" THEN "accept"
            ELSE IF LastVerdict(arg.history) = "terminate" THEN "terminate"
            ELSE "max_iterations"
C31_Witness ==
    /\ fpc = "done"
    /\ arg.session_id # ""
    /\ arg.state = "exited"
    /\ arg.history # <<>>
    /\ LastVerdict(arg.history) = "accept"
    /\ value.verdict = "exit"


\* C32 as stated: the resend loop delivers at most 5 submit keystrokes, and
\* delivers none at a moment when the task file no longer holds the pending
\* placeholder or no longer exists.
C32_NoResendOnceUpdated ==
    /\ [](submits <= ResendLimit)
    /\ [][submits' # submits => task_still_pending(taskFile)]_vars

\* C32 as amended: the resend loop delivers at most 5 submit keystrokes, one
\* per round, each only after the wait of its round ended with the
\* placeholder still in the file; once a wait has seen the file updated or
\* gone, no further keystroke is delivered.
C32_ResendOnlyAfterPendingPoll ==
    /\ [](submits <= attempt /\ attempt <= ResendLimit)
    /\ [](dpc = "send" => observed = "pending")
    /\ [][submits' # submits => (submits' = submits + 1 /\ observed = "pending")]_vars
    /\ [][(observed \notin {"none", "pending"}) => submits' = submits]_vars
C32_Witness ==
    /\ dpc = "returned"
    /\ submits >= 1
    /\ submits < ResendLimit
    /\ observed = "updated"
C32_WitnessLimit ==
    /\ dpc = "returned"
    /\ submits = ResendLimit
    /\ observed = "pending"


\* C38: whenever spawn has exited with status 1 because a mux operation
\* failed (create_window, or the delivery of the contract), the store holds
\* no record in state running for the id that spawn allocated.
C38_FailedSpawnLeavesNoRecord == dpc = "exit1" => drec # "running"


\* The step on which run_loop returns.
LoopReturns == lpc # "returned" /\ lpc' = "returned"

\* C33: whenever run_loop returns, _read_loop_result applied to the loop
\* session as it is on disk at that moment yields the verdict run_loop
\* returned.
C33_ReconstructionAgrees ==
    [][LoopReturns => read_loop_result(LoopDisk').verdict = ret'.verdict]_vars

\* The case the claim names: a retry doer was aborted or failed, the loop
\* session itself completed normally, and the two verdicts differ.
C33_RetryDoerLost ==
    /\ lpc = "returned"
    /\ ret.via = "doer_failed"
    /\ ret.iterations = 2
    /\ session_id \in DOMAIN lsess
    /\ lsess[session_id].state = "done"
    /\ read_loop_result(LoopDisk).verdict = "max_iterations"

\* C34: whenever run_loop returns, the result text _read_loop_result takes
\* from disk for the phase equals the result_text run_loop returned.
C34_ResultTextAgrees ==
    [][LoopReturns => read_loop_result(LoopDisk').result_text = ret'.result_text]_vars

\* The case the claim names: the loop was accepted on a retry, and the text
\* read back is the output of the rejected first attempt.
C34_EarlierAttemptRead ==
    /\ lpc = "returned"
    /\ ret.verdict = "accept"
    /\ ret.iterations = 2
    /\ ret.result_text = OutputOf(DoerKey(1))
    /\ read_loop_result(LoopDisk).result_text = OutputOf(DoerKey(0))


\* C35: if the current doer's session directory has been deleted by an
\* abort while run_loop is waiting for that doer (the watch is running and
\* has the removal to report), run_loop does not wait forever: the wait
\* eventually ends.
DoerAbortedWhileAwaited ==
    /\ lpc = "d_watch"
    /\ armed = current_doer_id
    /\ event
    /\ current_doer_id \notin DOMAIN lsess
C35_AbortedDoerWaitEnds == DoerAbortedWhileAwaited ~> ~DoerWaiting


\* C36: run_loop goes on to the checker of an iteration only when, at the
\* load_session that decides it, the iteration's doer session exists and is
\* in a terminal state other than aborted, failed or exited.
CheckerInvoked == lpc = "d_check" /\ lpc' = "checker"
C36_CheckerOnlyOnCompletedDoer ==
    [][CheckerInvoked =>
          /\ current_doer_id \in DOMAIN lsess
          /\ lsess[current_doer_id].state \in
                 TERMINAL_STATES \ {"aborted", "failed", "exited"}]_vars


\* The persisted history h holds entries 0..k-1, each with verdict retry.
RetriesRecorded(h, k) ==
    /\ Len(h) >= k
    /\ \A j \in 1..k : h[j].iteration = j - 1 /\ h[j].verdict = "retry"

SiblingsComparable(v) ==
    \A r, q \in v.sessions :
        r.parent = q.parent =>
            /\ session_sort_key(r.id).ok
            /\ session_sort_key(q.id).ok
            /\ Comparable(session_sort_key(r.id).key, session_sort_key(q.id).key)
C39_SiblingKeysComparable ==
    fpc = "done" => (SiblingsComparable(arg) /\ ~value.raised)

\* C40: when _build_tree returns rows, every session of the snapshot whose
\* parent chain reaches a root appears in at least one row.
C40_TreeComplete ==
    (fpc = "done" /\ ~value.raised) =>
        \A r \in arg.sessions : \E k \in DOMAIN value.rows : value.rows[k].id = r.id

====
